---- MODULE Spec2Model ----
(***************************************************************************)
(* gcad: a machining script is interpreted by ScriptEngine, whose builtins *)
(* drive GcodeState; GcodeState buffers GCode instructions and, at finish, *)
(* writes them as modally diffed G-code lines.                             *)
(*                                                                         *)
(* f64 values are extended rationals <<n, d>> in lowest terms with d >= 0: *)
(* <<1,0>> is +inf, <<-1,0>> is -inf and <<0,0>> is NaN.  Rounding of the  *)
(* binary representation is not modelled: every magnitude used below is   *)
(* computed exactly.                                                       *)
(***************************************************************************)
EXTENDS Integers, Sequences, FiniteSets

VARIABLES
    global_vars,  \* ScriptEngine.global_vars: identifier -> ScriptValue
    materials,    \* ScriptEngine.materials: name -> Material
    gcode,        \* ScriptEngine.gcode: the GcodeState record
    pc,           \* where main is: start, materials, script, loop, done, failed, ..
    out,          \* the lines written to the output file
    log,          \* every statement executed so far with its outcome, in order
    loop          \* the for-loop in progress (an Option)

vars == <<global_vars, materials, gcode, pc, out, log, loop>>

----------------------------------------------------------------------------
(* f64 arithmetic *)

Abs(x) == IF x < 0 THEN -x ELSE x

Sgn(x) == IF x < 0 THEN -1 ELSE IF x > 0 THEN 1 ELSE 0

RECURSIVE GCD(_, _)
GCD(a, b) == IF b = 0 THEN a ELSE GCD(b, a % b)

\* the f64 n/d (d = 0 gives the infinities and NaN, as IEEE division does)
Flt(n, d) ==
    IF d = 0 THEN <<Sgn(n), 0>>
    ELSE LET g == GCD(Abs(n), Abs(d))
             s == IF d < 0 THEN -1 ELSE 1
         IN  <<(s * n) \div g, (s * d) \div g>>

FInt(i) == <<i, 1>>

NaN == <<0, 0>>

IsNaN(a) == a = NaN

IsFinite(a) == a[2] # 0

FNeg(a) == <<-a[1], a[2]>>

FAdd(a, b) ==
    IF IsNaN(a) \/ IsNaN(b) THEN NaN
    ELSE IF a[2] = 0 /\ b[2] = 0 THEN (IF a[1] = b[1] THEN a ELSE NaN)
    ELSE IF a[2] = 0 THEN a
    ELSE IF b[2] = 0 THEN b
    ELSE Flt(a[1] * b[2] + b[1] * a[2], a[2] * b[2])

FSub(a, b) == FAdd(a, FNeg(b))

FMul(a, b) == Flt(a[1] * b[1], a[2] * b[2])

FDiv(a, b) == Flt(a[1] * b[2], a[2] * b[1])

\* f64 PartialEq: NaN equals nothing
FEq(a, b) == a = b /\ ~IsNaN(a)

FLt(a, b) ==
    IF IsNaN(a) \/ IsNaN(b) THEN FALSE
    ELSE IF a[2] = 0 /\ b[2] = 0 THEN a[1] < b[1]
    ELSE a[1] * b[2] < b[1] * a[2]

FLe(a, b) == FLt(a, b) \/ FEq(a, b)

\* f64::floor and f64::ceil
FFloor(a) == IF IsFinite(a) THEN FInt(a[1] \div a[2]) ELSE a

FCeil(a) == IF IsFinite(a) THEN FInt(-((-a[1]) \div a[2])) ELSE a

\* The largest count an `as i64` cast yields.  The cast saturates: +inf
\* becomes i64::MAX; the model's integers are narrower, so the largest
\* model integer stands for it.
I64_MAX == 2147483647

\* `x as i64` for an f64 x: NaN is 0, the infinities saturate, otherwise
\* truncation toward zero
AsI64(a) ==
    IF IsNaN(a) THEN 0
    ELSE IF a[2] = 0 THEN a[1] * I64_MAX
    ELSE IF a[1] >= 0 THEN a[1] \div a[2] ELSE -((-a[1]) \div a[2])

\* Option<T>: None is the empty tuple, Some(v) is <<v>>
None == <<>>

Some(v) == <<v>>

IsSome(o) == o # <<>>

Unwrap(o) == o[1]

\* Option<f64> equality
OptFEq(o, p) ==
    IF IsSome(o) /\ IsSome(p) THEN FEq(Unwrap(o), Unwrap(p))
    ELSE ~IsSome(o) /\ ~IsSome(p)

----------------------------------------------------------------------------
(* numbers.rs: Number = InnerValue (Integer | Float) tagged with a Unit *)

Units == {"mm", "cm", "m", "ft", "in", "yd", "none"}

\* Number { value, unit }; int tells Integer(i64) from Float(f64)
Number(isInt, v, unit) == [int |-> isInt, v |-> v, unit |-> unit]

from_int(i) == Number(TRUE, FInt(i), "none")

from_float(f) == Number(FALSE, f, "none")

from_int_and_unit(i, unit) == Number(TRUE, FInt(i), unit)

from_float_and_unit(f, unit) == Number(FALSE, f, unit)

\* Number::as_float: Some only for a unitless number
as_float(n) == IF n.unit = "none" THEN Some(n.v) ELSE None

\* the arm of convert_unit's match for two different units, as the factor the
\* magnitude is multiplied by (value / 25.4 is value * 10/254)
ConvFactor(from, to) ==
    CASE from = "mm" /\ to = "cm" -> Flt(1, 10)
      [] from = "mm" /\ to = "m"  -> Flt(1, 1000)
      [] from = "mm" /\ to = "in" -> Flt(10, 254)
      [] from = "mm" /\ to = "ft" -> Flt(10, 3048)
      [] from = "mm" /\ to = "yd" -> Flt(10, 9144)
      [] from = "cm" /\ to = "mm" -> Flt(10, 1)
      [] from = "cm" /\ to = "m"  -> Flt(1, 100)
      [] from = "cm" /\ to = "in" -> Flt(100, 254)
      [] from = "cm" /\ to = "ft" -> Flt(100, 3048)
      [] from = "cm" /\ to = "yd" -> Flt(100, 9144)
      [] from = "m" /\ to = "mm"  -> Flt(1000, 1)
      [] from = "m" /\ to = "cm"  -> Flt(100, 1)
      [] from = "m" /\ to = "in"  -> Flt(10000, 254)
      [] from = "m" /\ to = "ft"  -> Flt(10000, 3048)
      [] from = "m" /\ to = "yd"  -> Flt(10000, 9144)
      [] from = "in" /\ to = "mm" -> Flt(254, 10)
      [] from = "in" /\ to = "cm" -> Flt(254, 100)
      [] from = "in" /\ to = "m"  -> Flt(254, 10000)
      [] from = "in" /\ to = "ft" -> Flt(1, 12)
      [] from = "in" /\ to = "yd" -> Flt(1, 36)
      [] from = "ft" /\ to = "mm" -> Flt(12 * 254, 10)
      [] from = "ft" /\ to = "cm" -> Flt(12 * 254, 100)
      [] from = "ft" /\ to = "m"  -> Flt(12 * 254, 10000)
      [] from = "ft" /\ to = "in" -> Flt(12, 1)
      [] from = "ft" /\ to = "yd" -> Flt(1, 3)
      [] from = "yd" /\ to = "mm" -> Flt(3 * 12 * 254, 10)
      [] from = "yd" /\ to = "cm" -> Flt(3 * 12 * 254, 100)
      [] from = "yd" /\ to = "m"  -> Flt(3 * 12 * 254, 10000)
      [] from = "yd" /\ to = "in" -> Flt(3 * 12, 1)
      [] from = "yd" /\ to = "ft" -> Flt(3, 1)

\* Number::convert_unit: the magnitude is kept as it is (Integer stays
\* Integer) from or to no unit and to the same unit, and is a Float otherwise
convert_unit(n, unit) ==
    IF n.unit = "none" \/ unit = "none" \/ n.unit = unit
    THEN Number(n.int, n.v, unit)
    ELSE Number(FALSE, FMul(n.v, ConvFactor(n.unit, unit)), unit)

\* From<Number> for f64
ToF64(n) == n.v

\* convert_units_for_math that always takes the unit of lhs
convert_units_to_lhs(lhs, rhs) ==
    <<convert_unit(lhs, lhs.unit), convert_unit(rhs, lhs.unit)>>

\* convert_units_for_math: the unit of lhs, or of rhs when lhs has none
convert_units_for_math(lhs, rhs) ==
    LET dst_unit == IF lhs.unit = "none" THEN rhs.unit ELSE lhs.unit
    IN  <<convert_unit(lhs, dst_unit), convert_unit(rhs, dst_unit)>>

\* the operators computed in f64 whatever the operands are
InnerOpFloat(op, a, b) ==
    [int |-> FALSE,
     v |-> CASE op = "add" -> FAdd(a.v, b.v)
             [] op = "sub" -> FSub(a.v, b.v)
             [] op = "mul" -> FMul(a.v, b.v)
             [] op = "div" -> FDiv(a.v, b.v)]

\* InnerValue Add / Sub / Mul / Div: Integer only from two Integers, and
\* never from Div
InnerOp(op, a, b) ==
    LET v == CASE op = "add" -> FAdd(a.v, b.v)
               [] op = "sub" -> FSub(a.v, b.v)
               [] op = "mul" -> FMul(a.v, b.v)
               [] op = "div" -> FDiv(a.v, b.v)
    IN  [int |-> a.int /\ b.int /\ op # "div", v |-> v]

\* math_impl! for Number
NumberOp(op, a, b) ==
    LET c == convert_units_for_math(a, b)
        r == InnerOp(op, c[1], c[2])
    IN  Number(r.int, r.v, c[1].unit)

\* TryFrom<Number> for i64: only an Integer magnitude converts
TryIntoI64(n) == IF n.int THEN Some(n.v[1]) ELSE None

\* i64 -> usize (TryFrom): fails below zero
TryIntoUsize(i) == IF i >= 0 THEN Some(i) ELSE None

----------------------------------------------------------------------------
(* value.rs: ScriptValue *)

NumV(n) == [t |-> "Number", n |-> n]

StrV(s) == [t |-> "String", s |-> s]

RangeV(start, step, num) == [t |-> "Range", start |-> start, step |-> step, num |-> num]

NullV == [t |-> "Null"]

\* TryFrom<ScriptValue> for Number / for String, by the declared type
TryInto(v, type) ==
    IF type = "Number" /\ v.t = "Number" THEN Some(v.n)
    ELSE IF type = "String" /\ v.t = "String" THEN Some(v.s)
    ELSE None

----------------------------------------------------------------------------
(* gcode.rs: the GCode instructions and GcodeState's primitives *)

Comment(text) == [op |-> "Comment", text |-> text]

RapidMoveG(x, y, z) == [op |-> "RapidMove", x |-> x, y |-> y, z |-> z]

LinearMoveG(x, y, z, feed) == [op |-> "LinearMove", x |-> x, y |-> y, z |-> z, feed |-> feed]

CounterClockwiseArc(x, y, cx, cy, feed) ==
    [op |-> "CounterClockwiseArc", x |-> x, y |-> y, cx |-> cx, cy |-> cy, feed |-> feed]

MetricUnits == [op |-> "MetricUnits"]

MoveInAbsoluteCoordinates(inner) == [op |-> "MoveInAbsoluteCoordinates", inner |-> inner]

AbsoluteDistanceMode == [op |-> "AbsoluteDistanceMode"]

ProgramEnd == [op |-> "ProgramEnd"]

SpindleOnCW(rpm) == [op |-> "SpindleOnCW", rpm |-> rpm]

SpindleStop == [op |-> "SpindleStop"]

\* Matrix3::identity(); the only other transformation the program builds is
\* new_nonuniform_scaling, so the matrix is its diagonal <<sx, sy>>
Identity == <<FInt(1), FInt(1)>>

\* Matrix3::transform_point
transform_point(t, x, y) == <<FMul(t[1], x), FMul(t[2], y)>>

\* GcodeState::new
GcodeStateNew ==
    [stepover |-> FInt(0), depth_per_pass |-> FInt(0), feed_rate |-> FInt(0),
     plunge_rate |-> FInt(0), cutter_diameter |-> FInt(0),
     transformation |-> Identity, program |-> <<>>]

\* self.program.push
Push(g, instr) == [g EXCEPT !.program = Append(@, instr)]

\* GcodeState::write_header
write_header(g) ==
    LET g1 == Push(g, AbsoluteDistanceMode)
        g2 == Push(g1, MetricUnits)
        g3 == Push(g2, Comment("Move to safe Z"))
        g4 == Push(g3, MoveInAbsoluteCoordinates(RapidMoveG(None, None, Some(FInt(-5)))))
    IN  Push(g4, SpindleStop)

\* GcodeState::set_rpm
set_rpm(g, rpm) == Push(g, SpindleOnCW(rpm))

\* GcodeState::write_comment
write_comment(g, comment) == Push(g, Comment(comment))

\* GcodeState::cutting_move (z is an Option)
cutting_move(g, x, y, z) ==
    LET xy == transform_point(g.transformation, x, y)
    IN  Push(g, LinearMoveG(Some(xy[1]), Some(xy[2]), z, g.feed_rate))

\* GcodeState::plunge
plunge(g, z) == Push(g, LinearMoveG(None, None, Some(z), g.plunge_rate))

\* GcodeState::rapid_move (z is an Option)
rapid_move(g, x, y, z) ==
    LET xy == transform_point(g.transformation, x, y)
    IN  Push(g, RapidMoveG(Some(xy[1]), Some(xy[2]), z))

\* GcodeState::rapid_move_xy
rapid_move_xy(g, x, y) == rapid_move(g, x, y, None)

\* GcodeState::arc_cut
arc_cut(g, x, y, cx, cy) ==
    LET xy == transform_point(g.transformation, x, y)
        cxy == transform_point(g.transformation, cx, cy)
    IN  Push(g, CounterClockwiseArc(xy[1], xy[2], cxy[1], cxy[2], g.feed_rate))

\* drill without the approach to Z0.25
drill_no_approach(g, x, y, depth) ==
    rapid_move(plunge(rapid_move_xy(g, x, y), FNeg(depth)), x, y, Some(FInt(5)))

\* GcodeState::drill
drill(g, x, y, depth) ==
    LET g1 == rapid_move_xy(g, x, y)
        g2 == rapid_move(g1, x, y, Some(Flt(25, 100)))
        g3 == plunge(g2, FNeg(depth))
    IN  rapid_move(g3, x, y, Some(FInt(5)))

\* A loop whose count is the saturated cast pushes an instruction per
\* iteration onto program without end: the buffer cannot hold them and the
\* process is aborted (allocation failure) before the loop is left.
Exhausts(n) == n >= I64_MAX

\* circle_pocket, the loop over j in from..=n_circles of one pass
RECURSIVE CircleLoop(_, _, _, _, _, _)
CircleLoop(g, j, n_circles, cx, cy, x_offset) ==
    IF j > n_circles THEN g
    ELSE LET cd == g.cutter_diameter
             g1 == arc_cut(g, FSub(FSub(cx, x_offset), FDiv(FMul(cd, FInt(j - 1)), FInt(2))),
                           cy, cx, cy)
             g2 == IF j = n_circles
                   THEN arc_cut(g1, FAdd(FAdd(cx, x_offset), FDiv(FMul(cd, FInt(j - 1)), FInt(2))),
                                cy, cx, cy)
                   ELSE arc_cut(g1, FAdd(FAdd(cx, x_offset), FDiv(FMul(cd, FInt(j)), FInt(2))),
                                cy, FAdd(cx, FDiv(cd, FInt(4))), cy)
         IN  CircleLoop(g2, j + 1, n_circles, cx, cy, x_offset)

\* circle_pocket, the loop over i in from..=n_passes
RECURSIVE PassLoop(_, _, _, _, _, _, _, _)
PassLoop(g, i, n_passes, n_circles, cx, cy, x_offset, depth) ==
    IF i > n_passes THEN g
    ELSE LET g1 == plunge(g, FNeg(FDiv(FMul(depth, FInt(i)), FInt(n_passes))))
             g2 == CircleLoop(g1, 1, n_circles, cx, cy, x_offset)
             g3 == IF i < n_passes THEN cutting_move(g2, FAdd(cx, x_offset), cy, None) ELSE g2
         IN  PassLoop(g3, i + 1, n_passes, n_circles, cx, cy, x_offset, depth)

\* GcodeState::circle_pocket: [status, g]; status is "ok", "err" (the bail!)
\* or "abort" (the loops exhaust the buffer)
circle_pocket(g, cx, cy, diameter, depth) ==
    IF FLe(diameter, g.cutter_diameter)
    THEN [status |-> "err", msg |-> "Diameter must be greater than cutter diameter", g |-> g]
    ELSE LET cd == g.cutter_diameter
             n_circles == AsI64(FFloor(FDiv(diameter, cd)))
             n_passes == AsI64(FCeil(FDiv(depth, g.depth_per_pass)))
             x_offset == FSub(FDiv(diameter, FInt(2)), FDiv(FMul(cd, FInt(n_circles)), FInt(2)))
             g1 == rapid_move_xy(g, FAdd(cx, x_offset), cy)
             g2 == plunge(g1, Flt(25, 10))
         IN  IF Exhausts(n_passes) \/ (n_passes >= 1 /\ Exhausts(n_circles))
             THEN [status |-> "abort", msg |-> "", g |-> g2]
             ELSE LET g3 == PassLoop(g2, 1, n_passes, n_circles, cx, cy, x_offset, depth)
                      g4 == rapid_move(g3,
                                FAdd(FAdd(cx, x_offset), FDiv(FMul(cd, FInt(n_circles - 1)), FInt(2))),
                                cy, Some(FInt(5)))
                  IN  [status |-> "ok", msg |-> "", g |-> g4]

----------------------------------------------------------------------------
(* gcode.rs: GcodeWord, GCode::to_words, GCode::is_empty, write_program *)

\* GcodeWord::G(n) and GcodeWord::M(n)
GWord(n) == [w |-> "G", n |-> n]

MWord(n) == [w |-> "M", n |-> n]

\* GcodeWord::F / I / J / S / X / Y / Z, by its letter (to_char)
VWord(letter, v) == [w |-> letter, v |-> v]

\* vec![...].into_iter().filter_map(|x| x).collect() over Option<GcodeWord>
OptWord(letter, o) == IF IsSome(o) THEN <<VWord(letter, Unwrap(o))>> ELSE <<>>

\* GCode::to_words: [ok, words]; not ok is the bail! of an arc without a
\* current position.  Comment never gets here.
RECURSIVE to_words(_, _, _)
to_words(gc, current_x, current_y) ==
    CASE gc.op = "RapidMove" ->
            [ok |-> TRUE,
             words |-> <<GWord(0)>> \o OptWord("X", gc.x) \o OptWord("Y", gc.y) \o OptWord("Z", gc.z)]
      [] gc.op = "LinearMove" ->
            [ok |-> TRUE,
             words |-> <<GWord(1)>> \o OptWord("X", gc.x) \o OptWord("Y", gc.y) \o OptWord("Z", gc.z)
                       \o <<VWord("F", gc.feed)>>]
      [] gc.op = "CounterClockwiseArc" ->
            IF IsSome(current_x) /\ IsSome(current_y)
            THEN [ok |-> TRUE,
                  words |-> <<GWord(3), VWord("X", gc.x), VWord("Y", gc.y),
                              VWord("I", FSub(gc.cx, Unwrap(current_x))),
                              VWord("J", FSub(gc.cy, Unwrap(current_y))),
                              VWord("F", gc.feed)>>]
            ELSE [ok |-> FALSE, words |-> <<>>]
      [] gc.op = "MetricUnits" -> [ok |-> TRUE, words |-> <<GWord(21)>>]
      [] gc.op = "MoveInAbsoluteCoordinates" ->
            LET inner == to_words(gc.inner, current_x, current_y)
            IN  [ok |-> inner.ok, words |-> IF inner.ok THEN <<GWord(53)>> \o inner.words ELSE <<>>]
      [] gc.op = "AbsoluteDistanceMode" -> [ok |-> TRUE, words |-> <<GWord(90)>>]
      [] gc.op = "ProgramEnd" -> [ok |-> TRUE, words |-> <<MWord(2)>>]
      [] gc.op = "SpindleOnCW" -> [ok |-> TRUE, words |-> <<MWord(3), VWord("S", gc.rpm)>>]
      [] gc.op = "SpindleStop" -> [ok |-> TRUE, words |-> <<MWord(5)>>]

\* words.iter().any(...) over the letters given
AnyWord(words, letters) == \E k \in 1..Len(words) : words[k].w \in letters

\* is_empty without the check that a move names a position
is_empty_moves_kept(gc, words) ==
    IF gc.op = "SpindleOnCW" THEN ~AnyWord(words, {"S"}) ELSE FALSE

\* GCode::is_empty
is_empty(gc, words) ==
    LET pos_present == AnyWord(words, {"X", "Y", "Z"})
        s_present == AnyWord(words, {"S"})
    IN  CASE gc.op \in {"RapidMove", "LinearMove", "CounterClockwiseArc"} -> ~pos_present
          [] gc.op \in {"MetricUnits", "AbsoluteDistanceMode", "ProgramEnd", "SpindleStop",
                        "MoveInAbsoluteCoordinates"} -> FALSE
          [] gc.op = "SpindleOnCW" -> ~s_present

Letters == {"X", "Y", "Z", "I", "J", "F", "S"}

\* write_program's locals before its loop: last_command = None and an empty
\* HashMap (every letter absent), nothing written, no error
WriterNew ==
    [last_command |-> None, state |-> [c \in Letters |-> None], lines |-> <<>>, ok |-> TRUE]

\* write_program, the `for word in &words` loop: acc is [pieces, g53, last_command]
RECURSIVE ScanWords(_, _, _, _)
ScanWords(words, k, state, acc) ==
    IF k > Len(words) THEN acc
    ELSE LET word == words[k]
             a1 == IF word.w = "G"
                   THEN LET is53 == word.n = 53
                            lc == IF is53 THEN None ELSE acc.last_command
                        IN  [pieces |-> IF lc # Some(word) THEN Append(acc.pieces, word) ELSE acc.pieces,
                             g53 |-> acc.g53 \/ is53, last_command |-> lc]
                   ELSE IF word.w = "M"
                   THEN [acc EXCEPT !.pieces = IF acc.last_command # Some(word)
                                               THEN Append(@, word) ELSE @]
                   ELSE IF acc.g53 \/ ~OptFEq(state[word.w], Some(word.v))
                   THEN [acc EXCEPT !.pieces = Append(@, word)]
                   ELSE acc
         IN  ScanWords(words, k + 1, state, a1)

\* write_program, the `for word in pieces` loop that updates the state from
\* the line as written
RECURSIVE UpdateState(_, _, _, _)
UpdateState(pieces, k, g53, ws) ==
    IF k > Len(pieces) THEN ws
    ELSE LET word == pieces[k]
             w1 == IF word.w \in {"G", "M"}
                   THEN (IF ~g53 THEN [ws EXCEPT !.last_command = Some(word)] ELSE ws)
                   ELSE IF ~g53
                   THEN [ws EXCEPT !.state[word.w] = Some(word.v)]
                   ELSE [ws EXCEPT !.state[word.w] = None]
         IN  UpdateState(pieces, k + 1, g53, w1)

\* format_number: "{:.3}" (nearest thousandth, a tie to the even one), zeros
\* and the point trimmed; the text is kept as the number it denotes
format_number(f) ==
    IF ~IsFinite(f) THEN f
    ELSE LET n == f[1] * 1000
             q == n \div f[2]
             r == n % f[2]
             up == 2 * r > f[2] \/ (2 * r = f[2] /\ q % 2 = 1)
         IN  Flt(IF up THEN q + 1 ELSE q, 1000)

\* GcodeWord::to_string
WordToString(word) ==
    IF word.w \in {"G", "M"} THEN word ELSE VWord(word.w, format_number(word.v))

\* pieces.iter().map(|w| w.to_string()) ... join(" "): a written line
LineOf(pieces) == [kind |-> "words", words |-> [k \in 1..Len(pieces) |-> WordToString(pieces[k])]]

CommentLine(text) == [kind |-> "comment", text |-> text]

\* the loop body with the state updated from the pieces before the line is
\* found empty and skipped
WriteLineEager(ws, line) ==
    IF line.op = "Comment" THEN [ws EXCEPT !.lines = Append(@, CommentLine(line.text))]
    ELSE LET tw == to_words(line, ws.state["X"], ws.state["Y"])
         IN  IF ~tw.ok THEN [ws EXCEPT !.ok = FALSE]
             ELSE LET acc == ScanWords(tw.words, 1, ws.state,
                                       [pieces |-> <<>>, g53 |-> FALSE,
                                        last_command |-> ws.last_command])
                      ws1 == UpdateState(acc.pieces, 1, acc.g53,
                                         [ws EXCEPT !.last_command = acc.last_command])
                  IN  IF acc.pieces = <<>> \/ is_empty(line, acc.pieces) THEN ws1
                      ELSE [ws1 EXCEPT !.lines = Append(@, LineOf(acc.pieces))]

\* write_program, the body of `for line in &self.program`
WriteLine(ws, line) ==
    IF line.op = "Comment" THEN [ws EXCEPT !.lines = Append(@, CommentLine(line.text))]
    ELSE LET tw == to_words(line, ws.state["X"], ws.state["Y"])
         IN  IF ~tw.ok THEN [ws EXCEPT !.ok = FALSE]
             ELSE LET acc == ScanWords(tw.words, 1, ws.state,
                                       [pieces |-> <<>>, g53 |-> FALSE,
                                        last_command |-> ws.last_command])
                      ws1 == [ws EXCEPT !.last_command = acc.last_command]
                  IN  IF acc.pieces = <<>> \/ is_empty(line, acc.pieces) THEN ws1
                      ELSE UpdateState(acc.pieces, 1, acc.g53,
                                       [ws1 EXCEPT !.lines = Append(@, LineOf(acc.pieces))])

\* GcodeState::write_program: the loop from instruction k on, left at the
\* first error
RECURSIVE WriteFrom(_, _, _)
WriteFrom(program, k, ws) ==
    IF k > Len(program) \/ ~ws.ok THEN ws
    ELSE WriteFrom(program, k + 1, WriteLine(ws, program[k]))

write_program(program) == WriteFrom(program, 1, WriterNew)

\* GcodeState::finish: [ok, g, lines]
finish(g) ==
    LET g1 == Push(g, ProgramEnd)
        ws == write_program(g1.program)
    IN  [ok |-> ws.ok, g |-> g1, lines |-> ws.lines]

----------------------------------------------------------------------------
(* gcode.rs: contour_line and groove_pocket *)

\* contour_line, the loop over layer in from..=n_passes
RECURSIVE ContourLoop(_, _, _, _, _, _, _, _)
ContourLoop(g, layer, n_passes, x1, y1, x2, y2, depth) ==
    IF layer > n_passes THEN g
    ELSE LET z == FNeg(FDiv(FMul(depth, FInt(layer)), FInt(n_passes)))
             g1 == rapid_move_xy(g, x1, y1)
             g2 == plunge(g1, z)
             g3 == cutting_move(g2, x2, y2, None)
             g4 == rapid_move(g3, x2, y2, Some(FInt(5)))
         IN  ContourLoop(g4, layer + 1, n_passes, x1, y1, x2, y2, depth)

\* contour_line with the number of passes rounded down
contour_line_floor(g, x1, y1, x2, y2, depth) ==
    LET n_passes == AsI64(FFloor(FDiv(depth, g.depth_per_pass)))
    IN  IF Exhausts(n_passes) THEN [status |-> "abort", msg |-> "", g |-> g]
        ELSE [status |-> "ok", msg |-> "",
              g |-> ContourLoop(g, 1, n_passes, x1, y1, x2, y2, depth)]

\* GcodeState::contour_line: [status, g]
contour_line(g, x1, y1, x2, y2, depth) ==
    LET n_passes == AsI64(FCeil(FDiv(depth, g.depth_per_pass)))
    IN  IF Exhausts(n_passes) THEN [status |-> "abort", msg |-> "", g |-> g]
        ELSE [status |-> "ok", msg |-> "",
              g |-> ContourLoop(g, 1, n_passes, x1, y1, x2, y2, depth)]

\* const RETRACT
RETRACT == Flt(25, 100)

\* groove_pocket, the loop `for _ in 0..n_loops` that builds the pattern;
\* c is [x, y, width, height]
RECURSIVE PatternLoop(_, _, _, _, _)
PatternLoop(pattern, k, n_loops, c, stepover) ==
    IF k >= n_loops THEN pattern
    ELSE LET p1 == <<c.x, c.y>>
             p2 == <<FAdd(c.x, c.width), c.y>>
             p3 == <<FAdd(c.x, c.width), FAdd(c.y, c.height)>>
             p4 == <<c.x, FAdd(c.y, c.height)>>
             c1 == [x |-> FAdd(c.x, stepover), y |-> FAdd(c.y, stepover),
                    width |-> FSub(c.width, FMul(FInt(2), stepover)),
                    height |-> FSub(c.height, FMul(FInt(2), stepover))]
         IN  PatternLoop(pattern \o <<p1, p2, p3, p4, p1>>, k + 1, n_loops, c1, stepover)

\* Vec::reverse
Reverse(seq) == [k \in 1..Len(seq) |-> seq[Len(seq) + 1 - k]]

\* groove_pocket, `for (x, y) in pattern.iter().skip(1)`
RECURSIVE CutPattern(_, _, _)
CutPattern(g, pattern, k) ==
    IF k > Len(pattern) THEN g
    ELSE CutPattern(cutting_move(g, pattern[k][1], pattern[k][2], None), pattern, k + 1)

\* groove_pocket, the loop over layer in from..=n_passes (pattern not empty)
RECURSIVE GrooveLoop(_, _, _, _, _)
GrooveLoop(g, layer, n_passes, pattern, depth) ==
    IF layer > n_passes THEN g
    ELSE LET z == FNeg(FDiv(FMul(depth, FInt(layer)), FInt(n_passes)))
             x == pattern[1][1]
             y == pattern[1][2]
             g1 == IF layer = 1
                   THEN plunge(rapid_move(rapid_move_xy(g, x, y), x, y, Some(FInt(5))), z)
                   ELSE plunge(rapid_move_xy(g, x, y), z)
             g2 == CutPattern(g1, pattern, 2)
             g3 == IF layer = n_passes
                   THEN rapid_move(g2, x, y, Some(FInt(5)))
                   ELSE rapid_move(g2, x, y, Some(FAdd(z, RETRACT)))
         IN  GrooveLoop(g3, layer + 1, n_passes, pattern, depth)

\* GcodeState::groove_pocket: [status, g].  1 + (saturated cast) overflows
\* i64: a build with overflow checks panics there ("panic"), a build without
\* wraps to a negative count and goes on.  pattern[0] of an empty pattern is
\* an index panic.  wraps tells which build this is.
groove_pocket(g, x, y, width, height, depth, wraps) ==
    LET cd == g.cutter_diameter
        c == [x |-> FAdd(x, FDiv(cd, FInt(2))), y |-> FAdd(y, FDiv(cd, FInt(2))),
              width |-> FSub(width, cd), height |-> FSub(height, cd)]
        n_passes == AsI64(FCeil(FDiv(depth, g.depth_per_pass)))
        cast == AsI64(FCeil(FDiv(FSub(FDiv(width, FInt(2)), cd), g.stepover)))
        n_loops == IF Exhausts(cast) THEN -I64_MAX ELSE 1 + cast
        pattern == Reverse(PatternLoop(<<>>, 0, n_loops, c, g.stepover))
    IN  IF Exhausts(cast) /\ ~wraps THEN [status |-> "panic", msg |-> "", g |-> g]
        ELSE IF n_passes >= 1 /\ pattern = <<>> THEN [status |-> "panic", msg |-> "", g |-> g]
        ELSE IF Exhausts(n_passes) THEN [status |-> "abort", msg |-> "", g |-> g]
        ELSE [status |-> "ok", msg |-> "", g |-> GrooveLoop(g, 1, n_passes, pattern, depth)]

----------------------------------------------------------------------------
(* engine/builtins.rs: the builtins.  An engine e is the record              *)
(* [global_vars, materials, gcode]; a builtin returns [status, msg, e, ret]. *)

Outcome(status, msg, e, ret) == [status |-> status, msg |-> msg, e |-> e, ret |-> ret]

Ok(e, ret) == Outcome("ok", "", e, ret)

\* bail! / the ? operator: the engine is left as the builtin found it
Bail(e, msg) == Outcome("err", msg, e, NullV)

\* the result of a GcodeState toolpath: Ok(Null), the error passed on by ?,
\* or the end of the process
FromGcode(e, r) ==
    IF r.status = "ok" THEN Ok([e EXCEPT !.gcode = r.g], NullV)
    ELSE IF r.status = "err" THEN Bail(e, r.msg)
    ELSE Outcome(r.status, r.msg, e, NullV)

\* HashMap::insert
Insert(map, key, value) ==
    [k \in DOMAIN map \cup {key} |-> IF k = key THEN value ELSE map[k]]

\* struct Material
Material(stepover, depth_per_pass, feed_rate, plunge_rate, rpm) ==
    [stepover |-> stepover, depth_per_pass |-> depth_per_pass, feed_rate |-> feed_rate,
     plunge_rate |-> plunge_rate, rpm |-> rpm]

builtin_rpm(e, rpm) ==
    IF ~IsSome(as_float(rpm)) THEN Bail(e, "rpm: argument 0 must be a number")
    ELSE Ok([e EXCEPT !.gcode = set_rpm(@, Unwrap(as_float(rpm)))], NullV)

builtin_material(e, name) ==
    IF name \in DOMAIN e.materials
    THEN LET material == e.materials[name]
             g1 == [e.gcode EXCEPT !.stepover = material.stepover,
                                   !.depth_per_pass = material.depth_per_pass,
                                   !.feed_rate = material.feed_rate,
                                   !.plunge_rate = material.plunge_rate]
         IN  Ok([e EXCEPT !.gcode = set_rpm(g1, material.rpm)], NullV)
    ELSE Bail(e, "Unknown material")

builtin_cutter_diameter(e, diameter) ==
    IF diameter.unit = "none" THEN Bail(e, "diameter must have a unit")
    ELSE Ok([e EXCEPT !.gcode.cutter_diameter = ToF64(convert_unit(diameter, "mm"))], NullV)

\* x2, y2 and up are Options
builtin_contour_line(e, x1, y1, x2, y2, depth, up) ==
    IF IsSome(up) /\ Unwrap(up).unit = "none" THEN Bail(e, "up must have a unit")
    ELSE IF ~IsSome(up) /\ ~(IsSome(x2) /\ IsSome(y2))
    THEN Bail(e, "Either x2/y2 must be specified or another argument like up")
    ELSE LET to == IF IsSome(up) THEN <<x1, NumberOp("add", y1, Unwrap(up))>>
                   ELSE <<Unwrap(x2), Unwrap(y2)>>
         IN  IF \E n \in {x1, y1, to[1], to[2], depth} : n.unit = "none"
             THEN Bail(e, "All arguments must have a unit")
             ELSE FromGcode(e, contour_line(e.gcode,
                                 ToF64(convert_unit(x1, "mm")), ToF64(convert_unit(y1, "mm")),
                                 ToF64(convert_unit(to[1], "mm")), ToF64(convert_unit(to[2], "mm")),
                                 ToF64(convert_unit(depth, "mm"))))

builtin_drill(e, x, y, depth) ==
    IF x.unit = "none" \/ y.unit = "none" \/ depth.unit = "none"
    THEN Bail(e, "All arguments must have a unit")
    ELSE Ok([e EXCEPT !.gcode = drill(@, ToF64(convert_unit(x, "mm")),
                                      ToF64(convert_unit(y, "mm")),
                                      ToF64(convert_unit(depth, "mm")))], NullV)

\* diameter and radius are Options
builtin_circle_pocket(e, cx, cy, diameter, radius, depth) ==
    IF ~IsSome(diameter) /\ ~IsSome(radius)
    THEN Bail(e, "Either diameter or radius must be specified")
    ELSE LET d == IF IsSome(diameter) THEN Unwrap(diameter)
                  ELSE NumberOp("mul", Unwrap(radius), from_float(FInt(2)))
         IN  IF cx.unit = "none" \/ cy.unit = "none" \/ d.unit = "none" \/ depth.unit = "none"
             THEN Bail(e, "All arguments must have a unit")
             ELSE FromGcode(e, circle_pocket(e.gcode,
                                 ToF64(convert_unit(cx, "mm")), ToF64(convert_unit(cy, "mm")),
                                 ToF64(convert_unit(d, "mm")), ToF64(convert_unit(depth, "mm"))))

\* define_material that keeps the preset a name already has
builtin_define_material_once(e, name, stepover, depth_per_pass, feed_rate, plunge_rate, rpm) ==
    IF \E n \in {stepover, depth_per_pass, feed_rate, plunge_rate, rpm} : ~IsSome(as_float(n))
    THEN Bail(e, "must be a number")
    ELSE IF name \in DOMAIN e.materials THEN Ok(e, NullV)
    ELSE Ok([e EXCEPT !.materials =
                 Insert(@, name, Material(Unwrap(as_float(stepover)),
                                          Unwrap(as_float(depth_per_pass)),
                                          Unwrap(as_float(feed_rate)),
                                          Unwrap(as_float(plunge_rate)),
                                          Unwrap(as_float(rpm))))], NullV)

builtin_define_material(e, name, stepover, depth_per_pass, feed_rate, plunge_rate, rpm) ==
    IF ~IsSome(as_float(stepover)) THEN Bail(e, "stepover must be a number")
    ELSE IF ~IsSome(as_float(depth_per_pass)) THEN Bail(e, "depth_per_pass must be a number")
    ELSE IF ~IsSome(as_float(feed_rate)) THEN Bail(e, "feed_rate must be a number")
    ELSE IF ~IsSome(as_float(plunge_rate)) THEN Bail(e, "plunge_rate must be a number")
    ELSE IF ~IsSome(as_float(rpm)) THEN Bail(e, "rpm must be a number")
    ELSE Ok([e EXCEPT !.materials =
                 Insert(@, name, Material(Unwrap(as_float(stepover)),
                                          Unwrap(as_float(depth_per_pass)),
                                          Unwrap(as_float(feed_rate)),
                                          Unwrap(as_float(plunge_rate)),
                                          Unwrap(as_float(rpm))))], NullV)

builtin_groove_pocket(e, x, y, width, height, depth, wraps) ==
    IF \E n \in {x, y, width, height, depth} : n.unit = "none"
    THEN Bail(e, "All arguments must have a unit")
    ELSE FromGcode(e, groove_pocket(e.gcode,
                        ToF64(convert_unit(x, "mm")), ToF64(convert_unit(y, "mm")),
                        ToF64(convert_unit(width, "mm")), ToF64(convert_unit(height, "mm")),
                        ToF64(convert_unit(depth, "mm")), wraps))

builtin_comment(e, text) == Ok([e EXCEPT !.gcode = write_comment(@, text)], NullV)

\* linspace whose step divides by num instead of num - 1
builtin_linspace_by_num(e, start, stop, num) ==
    IF num.unit # "none" \/ ~num.int \/ (start.unit = "none") # (stop.unit = "none")
    THEN Bail(e, "linspace")
    ELSE Ok(e, RangeV(start, NumberOp("div", NumberOp("sub", convert_unit(stop, start.unit), start),
                                      from_int(num.v[1])),
                      num.v[1]))

\* num - 1 is an i64, made a Number by From<i64>; the step is computed before
\* the count is checked against usize
builtin_linspace(e, start, stop, num) ==
    IF num.unit # "none" THEN Bail(e, "num must not have a unit")
    ELSE IF start.unit = "none" /\ stop.unit # "none"
    THEN Bail(e, "start must have a unit if stop has a unit")
    ELSE IF start.unit # "none" /\ stop.unit = "none"
    THEN Bail(e, "stop must have a unit if start has a unit")
    ELSE LET stop1 == convert_unit(stop, start.unit)
             n == TryIntoI64(num)
         IN  IF ~IsSome(n) THEN Bail(e, "num argument must be an integer")
             ELSE LET step == NumberOp("div", NumberOp("sub", stop1, start),
                                       from_int(Unwrap(n) - 1))
                      count == TryIntoUsize(Unwrap(n))
                  IN  IF ~IsSome(count) THEN Bail(e, "num argument must be a positive integer")
                      ELSE Ok(e, RangeV(start, step, Unwrap(count)))

\* Matrix3::new_nonuniform_scaling
builtin_scale(e, x, y) ==
    IF x.unit # "none" \/ y.unit # "none" THEN Bail(e, "All arguments must not have a unit")
    ELSE Ok([e EXCEPT !.gcode.transformation = <<ToF64(x), ToF64(y)>>], NullV)

----------------------------------------------------------------------------
(* proc_macros/lib.rs: #[ffi_func], the argument binder generated for every *)
(* builtin, and engine/builtins.rs call_builtin                             *)

\* a declared parameter: is_argument_optional tells Option<T> from T
Req(name, type) == [name |-> name, optional |-> FALSE, type |-> type]

Opt(name, type) == [name |-> name, optional |-> TRUE, type |-> type]

\* the signatures the attribute is applied to (ast.sig.inputs without self)
Params(ident) ==
    CASE ident = "rpm" -> <<Req("rpm", "Number")>>
      [] ident = "material" -> <<Req("name", "String")>>
      [] ident = "cutter_diameter" -> <<Req("diameter", "Number")>>
      [] ident = "contour_line" ->
            <<Req("x1", "Number"), Req("y1", "Number"), Opt("x2", "Number"),
              Opt("y2", "Number"), Req("depth", "Number"), Opt("up", "Number")>>
      [] ident = "define_material" ->
            <<Req("name", "String"), Req("stepover", "Number"), Req("depth_per_pass", "Number"),
              Req("feed_rate", "Number"), Req("plunge_rate", "Number"), Req("rpm", "Number")>>
      [] ident = "drill" -> <<Req("x", "Number"), Req("y", "Number"), Req("depth", "Number")>>
      [] ident = "circle_pocket" ->
            <<Req("cx", "Number"), Req("cy", "Number"), Opt("diameter", "Number"),
              Opt("radius", "Number"), Req("depth", "Number")>>
      [] ident = "groove_pocket" ->
            <<Req("x", "Number"), Req("y", "Number"), Req("width", "Number"),
              Req("height", "Number"), Req("depth", "Number")>>
      [] ident = "comment" -> <<Req("text", "String")>>
      [] ident = "linspace" ->
            <<Req("start", "Number"), Req("stop", "Number"), Req("num", "Number")>>
      [] ident = "scale" -> <<Req("x", "Number"), Req("y", "Number")>>

\* the names call_builtin matches
Builtins ==
    {"rpm", "material", "cutter_diameter", "contour_line", "define_material", "drill",
     "circle_pocket", "groove_pocket", "comment", "linspace", "scale"}

\* HashMap::remove
Remove(map, key) == [k \in DOMAIN map \ {key} |-> map[k]]

\* the arg_parsers, in declaration order: the k-th takes args.next(), then
\* nargs.remove(name) over it, then (required) ok_or(..)?.  The result is
\* [err, who, bound, nargs]: bound[k] is the Option the k-th parameter holds,
\* nargs what is left of the named arguments.
\* the positional argument before the named one
ResolvePositional(p, k, args, nargs) ==
    IF k <= Len(args) THEN Some(args[k])
    ELSE IF p.name \in DOMAIN nargs THEN Some(nargs[p.name]) ELSE None

\* one arg_parser: `let mut arg = args.next().cloned()`, then
\* `if let Some(a) = nargs.remove(name) { arg = Some(a) }`
Resolve(p, k, args, nargs) ==
    IF p.name \in DOMAIN nargs THEN Some(nargs[p.name])
    ELSE IF k <= Len(args) THEN Some(args[k]) ELSE None

RECURSIVE ArgParsers(_, _, _, _, _)
ArgParsers(params, k, args, nargs, bound) ==
    IF k > Len(params) THEN [err |-> FALSE, who |-> "", bound |-> bound, nargs |-> nargs]
    ELSE LET p == params[k]
             arg == Resolve(p, k, args, nargs)
             left == Remove(nargs, p.name)
         IN  IF ~p.optional /\ ~IsSome(arg)
             THEN [err |-> TRUE, who |-> p.name, bound |-> bound, nargs |-> left]
             ELSE ArgParsers(params, k + 1, args, left, Append(bound, arg))

\* the call_args: try_into() of every bound value, the first failure wins;
\* 0 when all convert, else the idx of the message (self is input 0)
RECURSIVE CallArgs(_, _, _)
CallArgs(params, bound, k) ==
    IF k > Len(params) THEN 0
    ELSE IF IsSome(bound[k]) /\ ~IsSome(TryInto(Unwrap(bound[k]), params[k].type)) THEN k
    ELSE CallArgs(params, bound, k + 1)

\* the typed value handed to the builtin: T for a required parameter,
\* Option<T> for an optional one
Typed(params, bound, k) ==
    IF params[k].optional
    THEN (IF IsSome(bound[k]) THEN Some(Unwrap(TryInto(Unwrap(bound[k]), params[k].type)))
          ELSE None)
    ELSE Unwrap(TryInto(Unwrap(bound[k]), params[k].type))

\* self.#func_ident(#(#call_args),*)
Body(ident, e, a, wraps) ==
    CASE ident = "rpm" -> builtin_rpm(e, a[1])
      [] ident = "material" -> builtin_material(e, a[1])
      [] ident = "cutter_diameter" -> builtin_cutter_diameter(e, a[1])
      [] ident = "contour_line" -> builtin_contour_line(e, a[1], a[2], a[3], a[4], a[5], a[6])
      [] ident = "define_material" ->
            builtin_define_material(e, a[1], a[2], a[3], a[4], a[5], a[6])
      [] ident = "drill" -> builtin_drill(e, a[1], a[2], a[3])
      [] ident = "circle_pocket" -> builtin_circle_pocket(e, a[1], a[2], a[3], a[4], a[5])
      [] ident = "groove_pocket" -> builtin_groove_pocket(e, a[1], a[2], a[3], a[4], a[5], wraps)
      [] ident = "comment" -> builtin_comment(e, a[1])
      [] ident = "linspace" -> builtin_linspace(e, a[1], a[2], a[3])
      [] ident = "scale" -> builtin_scale(e, a[1], a[2])

\* An error of the binder: kind is "required", "arity", "unknown" or "type";
\* who the parameter or argument named, expected and got the counts, idx the
\* position of a value of the wrong type
BindError(e, kind, who, expected, got, idx, bound) ==
    [status |-> "err", msg |-> kind, e |-> e, ret |-> NullV, who |-> who,
     expected |-> expected, got |-> got, idx |-> idx, bound |-> bound, ran |-> FALSE]

\* no key is ever left
NextKeyNone(nargs, pick) == None

\* nargs.into_keys().next(): a key of the map in the HashMap's order, which
\* pick stands for
NextKey(nargs, pick) ==
    IF DOMAIN nargs = {} THEN None
    ELSE IF pick \in DOMAIN nargs THEN Some(pick)
    ELSE Some(CHOOSE n \in DOMAIN nargs : TRUE)

\* the generated #ffi_name(&mut self, args, nargs).  pick is the key that
\* nargs.into_keys().next() yields when several named arguments are left
\* (the HashMap's order); ran tells that the builtin's body was entered.
Ffi(ident, e, args, nargs, pick, wraps) ==
    LET params == Params(ident)
        arg_len == Len(args)
        parsed == ArgParsers(params, 1, args, nargs, <<>>)
    IN  IF parsed.err THEN BindError(e, "required", parsed.who, 0, 0, 0, parsed.bound)
        ELSE IF arg_len > Len(params)
        THEN BindError(e, "arity", "", Len(params), arg_len, 0, parsed.bound)
        ELSE IF IsSome(NextKey(parsed.nargs, pick))
        THEN BindError(e, "unknown", Unwrap(NextKey(parsed.nargs, pick)), 0, 0, 0, parsed.bound)
        ELSE LET bad == CallArgs(params, parsed.bound, 1)
             IN  IF bad # 0 THEN BindError(e, "type", "", 0, 0, bad, parsed.bound)
                 ELSE LET a == [k \in 1..Len(params) |-> Typed(params, parsed.bound, k)]
                          Returned(r) ==
                              [status |-> r.status, msg |-> r.msg, e |-> r.e, ret |-> r.ret,
                               who |-> "", expected |-> 0, got |-> 0, idx |-> 0,
                               bound |-> parsed.bound, ran |-> TRUE]
                      IN  Returned(Body(ident, e, a, wraps))

\* ScriptEngine::call_builtin and the funcCall arm of exec around it: an
\* identifier that is no builtin is the error "Function not found"
call_builtin(ident, e, args, nargs, pick, wraps) ==
    IF ident \in Builtins THEN Ffi(ident, e, args, nargs, pick, wraps)
    ELSE [status |-> "err", msg |-> "Function not found", e |-> e, ret |-> NullV, who |-> ident,
          expected |-> 0, got |-> 0, idx |-> 0, bound |-> <<>>, ran |-> FALSE]

----------------------------------------------------------------------------
(* engine/mod.rs: exec over the parse tree.  A pair is a record whose rule  *)
(* names the grammar rule; exec returns [status, msg, e, ret], the status   *)
(* "ok", "err" (an Err passed on by ?), or the end of the process ("panic", *)
(* "abort").                                                                *)

\* Rule::unitless_number, Rule::unit_number and Rule::string: the value the
\* literal denotes
Lit(v) == [rule |-> "literal", v |-> v]

\* Rule::ident
Ident(name) == [rule |-> "ident", name |-> name]

\* Rule::assign
Assign(ident, expr) == [rule |-> "assign", ident |-> ident, expr |-> expr]

\* Rule::mathExpr of one operator, as the climber groups it
MathExpr(op, lhs, rhs) == [rule |-> "mathExpr", op |-> op, lhs |-> lhs, rhs |-> rhs]

\* Rule::positionalParam and Rule::namedParam
Positional(expr) == [rule |-> "positionalParam", expr |-> expr]

Named(ident, expr) == [rule |-> "namedParam", ident |-> ident, expr |-> expr]

\* Rule::block: the statements between the braces
Block(stmts) == [rule |-> "block", stmts |-> stmts]

\* Rule::funcCall: params are the parameters as written, in order
FuncCall(ident, params) == [rule |-> "funcCall", ident |-> ident, params |-> params]

\* value.rs math_impl! for ScriptValue: Number op Number is the Number's
\* operator, every other pair of variants is panic!("Cannot do math on
\* non-numbers")
ScriptOp(op, e, a, b) ==
    IF a.t = "Number" /\ b.t = "Number" THEN Ok(e, NumV(NumberOp(op, a.n, b.n)))
    ELSE Outcome("panic", "Cannot do math on non-numbers", e, NullV)

\* the infix closure of CLIMBER.climb: lhs?, rhs?, then the operator.  Both
\* primaries have been evaluated by then; e is the engine after them.
Infix(op, l, r) ==
    IF r.status \notin {"ok", "err"} THEN r
    ELSE IF l.status = "err" THEN Outcome("err", l.msg, r.e, NullV)
    ELSE IF r.status = "err" THEN r
    ELSE ScriptOp(op, r.e, l.ret, r.ret)

RECURSIVE exec(_, _)
RECURSIVE parse_func_parameters(_, _, _, _, _)
RECURSIVE exec_block(_, _, _)

\* ScriptEngine::parse_func_parameters: the parameters are evaluated one by
\* one in the order they are written; a positional one is pushed, a named one
\* inserted under its name; the first error returns
parse_func_parameters(e, params, k, args, nargs) ==
    IF k > Len(params) THEN [status |-> "ok", msg |-> "", e |-> e, args |-> args, nargs |-> nargs]
    ELSE LET Collect(r) ==
                 IF r.status # "ok"
                 THEN [status |-> r.status, msg |-> r.msg, e |-> r.e, args |-> args, nargs |-> nargs]
                 ELSE IF params[k].rule = "positionalParam"
                 THEN parse_func_parameters(r.e, params, k + 1, Append(args, r.ret), nargs)
                 ELSE parse_func_parameters(r.e, params, k + 1, args,
                                            Insert(nargs, params[k].ident, r.ret))
         IN  Collect(exec(e, params[k].expr))

\* ScriptEngine::exec, the arms for expressions
exec(e, pair) ==
    CASE pair.rule = "literal" -> Ok(e, pair.v)
      [] pair.rule = "ident" ->
            IF pair.name \in DOMAIN e.global_vars THEN Ok(e, e.global_vars[pair.name])
            ELSE Bail(e, "Variable not found")
      [] pair.rule = "assign" ->
            LET Store(r) ==
                    IF r.status = "ok"
                    THEN Ok([r.e EXCEPT !.global_vars = Insert(@, pair.ident, r.ret)], r.ret)
                    ELSE r
            IN  Store(exec(e, pair.expr))
      [] pair.rule = "mathExpr" ->
            LET Rhs(l) ==
                    IF l.status \notin {"ok", "err"} THEN l
                    ELSE Infix(pair.op, l, exec(l.e, pair.rhs))
            IN  Rhs(exec(e, pair.lhs))
      [] pair.rule = "funcCall" ->
            LET Dispatch(p) ==
                    IF p.status # "ok" THEN Outcome(p.status, p.msg, p.e, NullV)
                    ELSE LET Returned(r) == Outcome(r.status, r.msg, r.e, r.ret)
                         IN  Returned(call_builtin(pair.ident, p.e, p.args, p.nargs, "", FALSE))
            IN  Dispatch(parse_func_parameters(e, pair.params, 1, <<>>, <<>>))
      [] pair.rule = "block" -> exec_block(e, pair.stmts, 1)

\* Rule::block: the statements in order, the first error returns
exec_block(e, block, k) ==
    IF k > Len(block) THEN Ok(e, NullV)
    ELSE LET Then(r) == IF r.status = "ok" THEN exec_block(r.e, block, k + 1)
                        ELSE Outcome(r.status, r.msg, r.e, NullV)
         IN  Then(exec(e, block[k]))

----------------------------------------------------------------------------
(* gcad/main.rs and engine/mod.rs: the driver *)

Engine == [global_vars |-> global_vars, materials |-> materials, gcode |-> gcode]

\* the engine variables take the fields of e
SetEngine(e) ==
    /\ global_vars' = e.global_vars
    /\ materials' = e.materials
    /\ gcode' = e.gcode

\* a funcCall statement with its arguments evaluated
Call(ident, args, nargs) == [ident |-> ident, args |-> args, nargs |-> nargs]

Unitless(i) == NumV(from_int(i))

\* BUILTIN_MATERIALS = include_str!("../materials.gcad"): define_material
\* statements that register the standard presets
BUILTIN_MATERIALS ==
    <<Call("define_material",
           <<StrV("aluminum"), Unitless(1), Unitless(1), Unitless(100), Unitless(50), Unitless(1000)>>,
           <<>>),
      Call("define_material",
           <<StrV("wood"), Unitless(2), Unitless(2), Unitless(200), Unitless(100), Unitless(2000)>>,
           <<>>)>>

\* run that logs an error and goes on to the next statement
RECURSIVE run_on(_, _, _, _)
run_on(script, k, e, done) ==
    IF k > Len(script) THEN [status |-> "ok", e |-> e, log |-> done]
    ELSE LET Then(r) ==
                 run_on(script, k + 1, r.e, Append(done, [stmt |-> script[k], status |-> r.status]))
         IN  Then(call_builtin(script[k].ident, e, script[k].args, script[k].nargs, "", FALSE))

\* ScriptEngine::run over statements k.. of a script: each is executed in
\* turn and the first error returns ([status, e, log])
RECURSIVE run(_, _, _, _)
run(script, k, e, done) ==
    IF k > Len(script) THEN [status |-> "ok", e |-> e, log |-> done]
    ELSE LET Logged(r) == Append(done, [stmt |-> script[k], status |-> r.status])
             Then(r) ==
                 IF r.status = "ok" THEN run(script, k + 1, r.e, Logged(r))
                 ELSE [status |-> r.status, e |-> r.e, log |-> Logged(r)]
         IN  Then(call_builtin(script[k].ident, e, script[k].args, script[k].nargs, "", FALSE))

\* ScriptEngine::new(): empty maps and GcodeState::new()
Init ==
    /\ global_vars = <<>>
    /\ materials = <<>>
    /\ gcode = GcodeStateNew
    /\ pc = "start"
    /\ out = <<>>
    /\ log = <<>>
    /\ loop = <<>>

\* main: machine.write_header()
WriteHeader ==
    /\ pc = "start"
    /\ gcode' = write_header(gcode)
    /\ pc' = "materials"
    /\ UNCHANGED <<global_vars, materials, out, log, loop>>

\* main: machine.run(BUILTIN_MATERIALS, ..)?
RunMaterials ==
    /\ pc = "materials"
    /\ \E r \in {run(BUILTIN_MATERIALS, 1, Engine, <<>>)} :
           /\ SetEngine(r.e)
           /\ pc' = IF r.status = "ok" THEN "script" ELSE "failed"
           /\ log' = log \o r.log
    /\ UNCHANGED <<out, loop>>

\* main: machine.finish(writer)?, reached when every statement returned Ok
Finish ==
    /\ pc = "script"
    /\ loop = <<>>
    /\ \E r \in {finish(gcode)} :
           /\ gcode' = r.g
           /\ out' = r.lines
           /\ pc' = IF r.ok THEN "done" ELSE "write_failed"
    /\ UNCHANGED <<global_vars, materials, log, loop>>

----------------------------------------------------------------------------
(* SpecEmit: after the header and the materials, GcodeState's primitives   *)
(* (and the material builtin, which sets the feed rates) are called in any *)
(* order, then the program is written.                                     *)

\* the calls made after the header, at most
MaxCalls == 3

\* instructions pushed by write_header
HeaderLen == Len(write_header(GcodeStateNew).program)

XYs == {<<FInt(0), FInt(0)>>, <<FInt(1), FInt(0)>>}

Zs == {FInt(-1), FInt(5)}

OptZs == {None, Some(FInt(-1))}

Rpms == {FInt(2000)}

MayCall == pc = "script" /\ Len(gcode.program) < HeaderLen + MaxCalls

EmitRapid ==
    /\ MayCall
    /\ \E xy \in XYs, z \in OptZs : gcode' = rapid_move(gcode, xy[1], xy[2], z)
    /\ UNCHANGED <<global_vars, materials, pc, out, log, loop>>

EmitCutting ==
    /\ MayCall
    /\ \E xy \in XYs, z \in OptZs : gcode' = cutting_move(gcode, xy[1], xy[2], z)
    /\ UNCHANGED <<global_vars, materials, pc, out, log, loop>>

EmitPlunge ==
    /\ MayCall
    /\ \E z \in Zs : gcode' = plunge(gcode, z)
    /\ UNCHANGED <<global_vars, materials, pc, out, log, loop>>

EmitRpm ==
    /\ MayCall
    /\ \E rpm \in Rpms : gcode' = set_rpm(gcode, rpm)
    /\ UNCHANGED <<global_vars, materials, pc, out, log, loop>>

EmitComment ==
    /\ MayCall
    /\ gcode' = write_comment(gcode, "note")
    /\ UNCHANGED <<global_vars, materials, pc, out, log, loop>>

EmitMaterial ==
    /\ MayCall
    /\ LET r == builtin_material(Engine, "aluminum")
       IN  r.status = "ok" /\ SetEngine(r.e)
    /\ UNCHANGED <<pc, out, log, loop>>

----------------------------------------------------------------------------
(* What the writer does with the instruction pushed last.  Every prefix of *)
(* a program is itself a reachable program, so a statement about the last  *)
(* instruction of every reachable program is one about every instruction.  *)

HasLast == gcode.program # <<>>

LastInstr == gcode.program[Len(gcode.program)]

Earlier == SubSeq(gcode.program, 1, Len(gcode.program) - 1)

\* the writer before the last instruction, and after it
Before == write_program(Earlier)

After(before) == WriteLine(before, LastInstr)

LastIsMove == HasLast /\ LastInstr.op \in {"RapidMove", "LinearMove"}

Emitted(before, after) == Len(after.lines) = Len(before.lines) + 1

Dropped(before, after) == after.lines = before.lines

LastLine(after) == after.lines[Len(after.lines)]

HasLetter(line, letter) == \E k \in 1..Len(line.words) : line.words[k].w = letter

\* the G word of a move
CommandOf(instr) == IF instr.op = "RapidMove" THEN GWord(0) ELSE GWord(1)

HasCommand(line, word) == \E k \in 1..Len(line.words) : line.words[k] = word

\* the axes a move names, with the letter of each
Axes == {<<"x", "X">>, <<"y", "Y">>, <<"z", "Z">>}

\* the move names the axis and its value is not the tracked one
AxisDiffers(instr, ws, ax) ==
    IsSome(instr[ax[1]]) /\ ~OptFEq(ws.state[ax[2]], instr[ax[1]])

ModalDiff(instr, before, after) ==
    IF \A ax \in Axes : ~AxisDiffers(instr, before, ax)
    THEN /\ Dropped(before, after)
         /\ after.last_command = before.last_command
         /\ after.state = before.state
    ELSE LET line == LastLine(after)
         IN  /\ Emitted(before, after)
             /\ line.kind = "words"
             /\ HasCommand(line, CommandOf(instr))
                    <=> (before.last_command # Some(CommandOf(instr)))
             /\ \A ax \in Axes : HasLetter(line, ax[2]) <=> AxisDiffers(instr, before, ax)
             /\ HasLetter(line, "F")
                    <=> (/\ instr.op = "LinearMove"
                         /\ ~OptFEq(before.state["F"], Some(instr.feed)))
             /\ \A k \in 1..Len(line.words) :
                    \/ line.words[k].w \in {"X", "Y", "Z", "F"}
                    \/ line.words[k] = CommandOf(instr)

\* C1: a move whose target equals the tracked position on every axis it
\* names writes no line and leaves the tracked command, feed and position as
\* they were; every other move writes exactly one line, which holds the
\* command word exactly when it differs from the last command written, an
\* axis word exactly when the move names the axis with a value other than the
\* tracked one, the F word exactly when a feed move's feed differs from the
\* tracked feed, and no other word.
C1_ModalDiff ==
    LastIsMove =>
        LET before == Before
            after == After(before)
        IN  ModalDiff(LastInstr, before, after)

\* C1 witness: the same rapid move twice in a row, the first written as a
\* line and the second as nothing
C1_Witness ==
    /\ Len(gcode.program) >= 2
    /\ LastInstr.op = "RapidMove"
    /\ Earlier[Len(Earlier)] = LastInstr
    /\ LET before == Before
       IN  /\ Dropped(before, After(before))
           /\ Len(before.lines)
                = Len(write_program(SubSeq(Earlier, 1, Len(Earlier) - 1)).lines) + 1

----------------------------------------------------------------------------
(* A machine reading G-code lines: the motion command, X, Y, Z, F and S are *)
(* modal, a word that is absent leaves its register as it was.  A position  *)
(* given on a G53 line is in machine coordinates (mc).                      *)

MachineNew ==
    [motion |-> None, X |-> None, Y |-> None, Z |-> None, F |-> None, S |-> None]

RECURSIVE ExecWords(_, _, _, _)
ExecWords(m, words, k, g53) ==
    IF k > Len(words) THEN m
    ELSE LET word == words[k]
         IN  IF word.w = "G"
             THEN ExecWords(IF word.n \in {0, 1, 3} THEN [m EXCEPT !.motion = Some(word.n)] ELSE m,
                            words, k + 1, g53 \/ word.n = 53)
             ELSE IF word.w \in {"X", "Y", "Z"}
             THEN ExecWords([m EXCEPT ![word.w] = Some([mc |-> g53, v |-> word.v])],
                            words, k + 1, g53)
             ELSE IF word.w \in {"F", "S"}
             THEN ExecWords([m EXCEPT ![word.w] = Some(word.v)], words, k + 1, g53)
             ELSE ExecWords(m, words, k + 1, g53)

ExecLine(m, line) == IF line.kind = "comment" THEN m ELSE ExecWords(m, line.words, 1, FALSE)

\* the line of an instruction with every word written out
FullLine(instr) ==
    IF instr.op = "Comment" THEN CommentLine(instr.text)
    ELSE LineOf(to_words(instr, None, None).words)

Position(m) == <<m.X, m.Y, m.Z>>

IsMotion(instr) == instr.op \in {"RapidMove", "LinearMove", "MoveInAbsoluteCoordinates"}

\* after instruction k the machine reading the written lines (mE) and the
\* machine reading full lines (mF) are in the same state whenever a line was
\* written, and an instruction that wrote nothing does not move mF
SameState(instr, emitted, mE1, mF, mF1) ==
    /\ emitted => mE1 = mF1
    /\ ~emitted => Position(mF1) = Position(mF)

\* the same for the position and the spindle speed throughout, for the motion
\* command after every written line of a move, and for the feed after every
\* written line of a feed move
SameMotion(instr, emitted, mE1, mF, mF1) ==
    /\ Position(mE1) = Position(mF1)
    /\ mE1.S = mF1.S
    /\ emitted /\ IsMotion(instr) => mE1.motion = mF1.motion
    /\ emitted /\ instr.op = "LinearMove" => mE1.F = mF1.F
    /\ ~emitted => Position(mF1) = Position(mF)

\* the program from instruction k on, written and executed step by step;
\* strict chooses SameState over SameMotion
RECURSIVE Refines(_, _, _, _, _, _)
Refines(program, k, ws, mE, mF, strict) ==
    IF k > Len(program) THEN TRUE
    ELSE LET instr == program[k]
             ws1 == WriteLine(ws, instr)
             emitted == Len(ws1.lines) > Len(ws.lines)
             mE1 == IF emitted THEN ExecLine(mE, ws1.lines[Len(ws1.lines)]) ELSE mE
             mF1 == ExecLine(mF, FullLine(instr))
         IN  /\ IF strict THEN SameState(instr, emitted, mE1, mF, mF1)
                ELSE SameMotion(instr, emitted, mE1, mF, mF1)
             /\ Refines(program, k + 1, ws1, mE1, mF1, strict)

\* C2 as stated: in every program written, after each written line the
\* machine reading the written lines is in the same state (motion command,
\* X, Y, Z, feed, spindle speed) as the machine given every word, and a
\* dropped instruction would not have moved that machine.
C2_SameState ==
    pc = "done" => Refines(gcode.program, 1, WriterNew, MachineNew, MachineNew, TRUE)

\* C2 amended: in every program written, the two machines agree on X, Y, Z
\* and the spindle speed after every instruction, on the motion command
\* after every written line of a move and on the feed after every written
\* line of a feed move; a dropped instruction would not have moved the
\* machine given every word.
C2_SameMotion ==
    pc = "done" => Refines(gcode.program, 1, WriterNew, MachineNew, MachineNew, FALSE)

RECURSIVE MachineRun(_, _, _)
MachineRun(m, lines, k) ==
    IF k > Len(lines) THEN m ELSE MachineRun(ExecLine(m, lines[k]), lines, k + 1)

\* C2 witness: a feed move was dropped, a later instruction wrote a line, and
\* the two machines, at the same position, hold different feeds
C2_Witness ==
    /\ pc = "done"
    /\ \E k \in 1..Len(gcode.program) : gcode.program[k].op = "LinearMove"
    /\ LET before == Before
           after == After(before)
           mE == MachineRun(MachineNew, after.lines, 1)
           mF == MachineRun(MachineNew, [k \in 1..Len(gcode.program) |-> FullLine(gcode.program[k])], 1)
       IN  /\ Emitted(before, after)
           /\ Position(mE) = Position(mF)
           /\ mE.F # mF.F

NextEmit ==
    \/ WriteHeader
    \/ RunMaterials
    \/ EmitRapid
    \/ EmitCutting
    \/ EmitPlunge
    \/ EmitRpm
    \/ EmitComment
    \/ EmitMaterial
    \/ Finish

SpecEmit == Init /\ [][NextEmit]_vars

----------------------------------------------------------------------------
(* SpecRun: main.  The header, the materials script, then the statements of *)
(* the user's script one by one, each a call of a builtin; the first that   *)
(* fails ends the run, and finish writes the program when none did.         *)

\* the statements of the user's script, at most
MaxStmts == 3

\* the literals 5mm, 1in, 0.25mm as the parser builds them
Mm(i) == NumV(from_int_and_unit(i, "mm"))

Inch(i) == NumV(from_int_and_unit(i, "in"))

MmF(n, d) == NumV(from_float_and_unit(Flt(n, d), "mm"))

DrillCalls ==
    {Call("drill", <<Mm(0), Mm(0), d>>, <<>>) : d \in {Mm(1), Mm(-5), MmF(-1, 4)}}
    \cup {Call("drill", <<Inch(1), Mm(2), Mm(5)>>, <<>>),
          Call("drill", <<Unitless(0), Unitless(0), Unitless(1)>>, <<>>)}

\* circle_pocket(0mm, 0mm, depth=1mm, ..) with the diameter and radius given
PocketCall(named) == Call("circle_pocket", <<Mm(0), Mm(0)>>, Insert(named, "depth", Mm(1)))

PocketCalls ==
    {PocketCall([diameter |-> d]) : d \in {Mm(4), Mm(5), Mm(10)}}
    \cup {PocketCall([radius |-> Mm(5)]),
          PocketCall([diameter |-> Mm(10), radius |-> Mm(3)]),
          PocketCall(<<>>)}

Statements ==
    DrillCalls \cup PocketCalls
    \cup {Call("cutter_diameter", <<Mm(5)>>, <<>>),
          Call("material", <<StrV("aluminum")>>, <<>>),
          Call("material", <<StrV("steel")>>, <<>>),
          Call("comment", <<StrV("note")>>, <<>>),
          Call("engrave", <<>>, <<>>)}

\* the statements of the user's script executed so far
UserLog == SubSeq(log, Len(BUILTIN_MATERIALS) + 1, Len(log))

\* main: machine.run_file(input), one statement of the loop of run: Ok goes
\* on to the next, Err returns from main, and a panic or an allocation
\* failure ends the process
Statement ==
    /\ pc = "script"
    /\ Len(UserLog) < MaxStmts
    /\ \E c \in Statements :
         \E r \in {run(<<c>>, 1, Engine, <<>>)} :
            /\ SetEngine(r.e)
            /\ log' = log \o r.log
            /\ pc' = CASE r.status = "ok" -> "script"
                       [] r.status = "err" -> "failed"
                       [] OTHER -> "aborted"
    /\ UNCHANGED <<out, loop>>

\* the statement executed by this step, when the step executes one
Executes(c) == Len(log') = Len(log) + 1 /\ log'[Len(log')].stmt = c

LastStatus == log[Len(log)].status

AllOk(l) == \A k \in 1..Len(l) : l[k].status = "ok"

\* the magnitude in millimetres of an argument
InMm(v) == ToF64(convert_unit(v.n, "mm"))

\* the header as the writer prints it
HeaderLines ==
    <<LineOf(<<GWord(90)>>), LineOf(<<GWord(21)>>), CommentLine("Move to safe Z"),
      LineOf(<<GWord(53), GWord(0), VWord("Z", FInt(-5))>>), LineOf(<<MWord(5)>>)>>

EndLine == LineOf(<<MWord(2)>>)

\* a finished run of the header and one drill with unit-bearing arguments
IsDrillRun ==
    /\ pc = "done"
    /\ Len(UserLog) = 1
    /\ UserLog[1].stmt.ident = "drill"
    /\ \A k \in 1..3 : UserLog[1].stmt.args[k].n.unit # "none"

DrillDepth == InMm(UserLog[1].stmt.args[3])

\* the four lines of the drill sequence
RapidLine == LineOf(<<GWord(0), VWord("X", InMm(UserLog[1].stmt.args[1])),
                      VWord("Y", InMm(UserLog[1].stmt.args[2]))>>)

ApproachLine == LineOf(<<VWord("Z", Flt(25, 100))>>)

PlungeLine == LineOf(<<GWord(1), VWord("Z", FNeg(DrillDepth)), VWord("F", gcode.plunge_rate)>>)

RetractLine == LineOf(<<GWord(0), VWord("Z", FInt(5))>>)

\* the output between the header and the last line
MotionLines == SubSeq(out, Len(HeaderLines) + 1, Len(out) - 1)

\* C3 as stated: after the header and one drill with unit-bearing arguments
\* the output is the five header lines and then exactly the four motion
\* lines rapid X Y, Z0.25, G1 Z-depth F, G0 Z5.
C3_DrillOutput ==
    IsDrillRun =>
        /\ SubSeq(out, 1, Len(HeaderLines)) = HeaderLines
        /\ MotionLines = <<RapidLine, ApproachLine, PlungeLine, RetractLine>>

\* C3 amended: the five header lines, then the rapid to (x, y) and the rapid
\* carrying only Z0.25, and then, when -depth is neither 0.25 mm nor 5 mm,
\* the feed move carrying only Z = -depth at the plunge rate and the rapid
\* carrying only Z5: four motion lines.  A move that leaves Z where it is is
\* suppressed whole: when -depth is 0.25 mm there is no feed move and the
\* last line is the bare word Z5, when -depth is 5 mm there is no last rapid.
C3_DrillOutputModal ==
    IsDrillRun =>
        /\ SubSeq(out, 1, Len(HeaderLines)) = HeaderLines
        /\ MotionLines =
              <<RapidLine, ApproachLine>>
              \o (CASE FEq(FNeg(DrillDepth), Flt(25, 100)) -> <<LineOf(<<VWord("Z", FInt(5))>>)>>
                    [] FEq(FNeg(DrillDepth), FInt(5)) -> <<PlungeLine>>
                    [] OTHER -> <<PlungeLine, RetractLine>>)

\* C3 witness: a finished run of one drill given in inches and millimetres
\* whose output has the four motion lines
C3_Witness ==
    /\ IsDrillRun
    /\ UserLog[1].stmt.args[1].n.unit = "in"
    /\ Len(MotionLines) = 4

\* C4: M02 is written exactly when the run ends with every statement of the
\* materials script and of the user's script Ok, and then once, as the last
\* line; a statement that fails is the last one executed, and after it
\* nothing is ever written.
C4_ProgramEnd ==
    /\ pc = "done" =>
          /\ AllOk(log)
          /\ out # <<>> /\ out[Len(out)] = EndLine
          /\ \A k \in 1..(Len(out) - 1) : out[k] # EndLine
    /\ pc # "write_failed"
    /\ pc # "done" => out = <<>>
    /\ AllOk(SubSeq(log, 1, Len(log) - 1))
    /\ ~AllOk(log) <=> pc \in {"failed", "aborted"}

\* C4 witness: the third statement failed after two that buffered G-code,
\* and nothing was written
C4_Witness ==
    /\ pc = "failed"
    /\ Len(UserLog) = 3
    /\ Len(gcode.program) > Len(HeaderLines)
    /\ out = <<>>

\* a circle_pocket statement that names the diameter alone
DiameterOnly(c) == c \in PocketCalls /\ DOMAIN c.nargs = {"diameter", "depth"}

\* C7 as stated: circle_pocket fails, buffering nothing, whenever the
\* diameter is at most the cutter diameter, and succeeds whenever it is
\* greater.
C7_Guard ==
    [][\A c \in Statements :
          Executes(c) /\ DiameterOnly(c) =>
              IF FLe(InMm(c.nargs.diameter), gcode.cutter_diameter)
              THEN LastStatus' = "err" /\ gcode' = gcode
              ELSE LastStatus' = "ok"]_vars

\* C8 as stated, for a cutter and a material already chosen: circle_pocket
\* with neither or both of diameter and radius fails with an error and
\* buffers nothing, and with the radius alone cuts the pocket of diameter
\* 2 * radius.
C8_ExactlyOne ==
    [][\A c \in PocketCalls :
          (/\ Executes(c)
           /\ FLt(FInt(0), gcode.cutter_diameter)
           /\ FLt(FInt(0), gcode.depth_per_pass)) =>
              LET given == DOMAIN c.nargs \cap {"diameter", "radius"}
              IN  CASE given = {"diameter"} -> TRUE
                    [] given = {"radius"} ->
                          \E r \in {circle_pocket(gcode, InMm(c.args[1]), InMm(c.args[2]),
                                                  FMul(FInt(2), InMm(c.nargs.radius)),
                                                  InMm(c.nargs.depth))} :
                             LastStatus' = r.status /\ gcode' = r.g
                    [] OTHER -> LastStatus' = "err" /\ gcode' = gcode]_vars

NextRun ==
    \/ WriteHeader
    \/ RunMaterials
    \/ Statement
    \/ Finish

SpecRun == Init /\ [][NextRun]_vars

----------------------------------------------------------------------------
(* SpecCall: after the header and the materials, calls of every builtin in  *)
(* every shape: too few, enough and too many positional arguments, named    *)
(* arguments for declared parameters and for none.                          *)

\* the calls made, at most
MaxBinds == 1

ParamNames(ident) == {Params(ident)[k].name : k \in 1..Len(Params(ident))}

\* builtins whose numbers are plain, the others take lengths
Plain == {"rpm", "define_material", "linspace", "scale"}

\* a value of the type the k-th parameter declares: i as a plain number or
\* as millimetres, or a material's name (the values past the last parameter
\* are numbers)
ValueFor(ident, k, i) ==
    IF k <= Len(Params(ident)) /\ Params(ident)[k].type = "String"
    THEN StrV(IF i < 10 THEN "aluminum" ELSE "wood")
    ELSE IF ident \in Plain THEN Unitless(i) ELSE Mm(i)

\* the position of a declared name
IndexOf(ident, name) == CHOOSE k \in 1..Len(Params(ident)) : Params(ident)[k].name = name

\* the k-th positional argument is k, the named argument of the k-th
\* parameter is 10 + k, and a name that is not declared carries 0
NamedValue(ident, name) ==
    IF name \in ParamNames(ident) THEN ValueFor(ident, IndexOf(ident, name), 10 + IndexOf(ident, name))
    ELSE Unitless(0)

Undeclared == {"bogus", "extra"}

\* the sets of names given: none, one, a declared one with an undeclared
\* one, or two undeclared ones
NameSets(ident) ==
    {{}} \cup {{n} : n \in ParamNames(ident) \cup {"bogus"}}
    \cup {{n, "bogus"} : n \in ParamNames(ident)} \cup {Undeclared}

CallShape(ident, npos, names) ==
    Call(ident, [k \in 1..npos |-> ValueFor(ident, k, k)],
         [n \in names |-> NamedValue(ident, n)])

\* Rule::funcCall: the arguments are parsed into args and nargs and the
\* builtin's binder is called; the entry logged keeps what the binder did
BindCall ==
    /\ pc = "script"
    /\ Len(UserLog) < MaxBinds
    /\ \E ident \in Builtins :
         \E npos \in 0..(Len(Params(ident)) + 1), names \in NameSets(ident), pick \in Undeclared :
           \E c \in {CallShape(ident, npos, names)} :
             \E r \in {call_builtin(c.ident, Engine, c.args, c.nargs, pick, FALSE)} :
                /\ SetEngine(r.e)
                /\ log' = Append(log, [stmt |-> c, status |-> r.status, msg |-> r.msg,
                                       who |-> r.who, expected |-> r.expected, got |-> r.got,
                                       bound |-> r.bound, ran |-> r.ran])
                /\ pc' = CASE r.status = "ok" -> "script"
                           [] r.status = "err" -> "failed"
                           [] OTHER -> "aborted"
    /\ UNCHANGED <<out, loop>>

\* the value the k-th parameter of call c is to hold
Expected(c, k) ==
    LET name == Params(c.ident)[k].name
    IN  IF name \in DOMAIN c.nargs THEN Some(c.nargs[name])
        ELSE IF k <= Len(c.args) THEN Some(c.args[k]) ELSE None

\* C5: in every call of every builtin, every parameter the binder binds holds
\* the named argument of its name when there is one, whether or not there is
\* a positional argument at its index, else the positional argument at its
\* index, else nothing; every declared parameter is bound unless a required
\* one before it was found missing; and the builtin works with the value
\* bound (cutter_diameter sets the cutter diameter to it).
C5_NamedOverPositional ==
    \A j \in 1..Len(UserLog) :
        LET l == UserLog[j]
        IN  /\ \A k \in 1..Len(l.bound) : l.bound[k] = Expected(l.stmt, k)
            /\ l.msg # "required" => Len(l.bound) = Len(Params(l.stmt.ident))
            /\ (j = Len(UserLog) /\ l.stmt.ident = "cutter_diameter" /\ l.status = "ok") =>
                   gcode.cutter_diameter = InMm(Unwrap(Expected(l.stmt, 1)))

\* C5 witness: a call whose first parameter has both a positional and a
\* named argument, bound to the named one, ran the builtin with success
C5_Witness ==
    \E j \in 1..Len(UserLog) :
        LET l == UserLog[j]
            name == Params(l.stmt.ident)[1].name
        IN  /\ l.ran /\ l.status = "ok" /\ l.stmt.ident = "cutter_diameter"
            /\ Len(l.stmt.args) >= 1 /\ name \in DOMAIN l.stmt.nargs
            /\ l.stmt.args[1] # l.stmt.nargs[name]
            /\ l.bound[1] = Some(l.stmt.nargs[name])

\* the required parameters call c leaves unresolved, by position
Unresolved(c) ==
    {k \in 1..Len(Params(c.ident)) :
        /\ ~Params(c.ident)[k].optional
        /\ k > Len(c.args)
        /\ Params(c.ident)[k].name \notin DOMAIN c.nargs}

TooMany(c) == Len(c.args) > Len(Params(c.ident))

Unknown(c) == DOMAIN c.nargs \ ParamNames(c.ident)

Min(S) == CHOOSE k \in S : \A m \in S : k <= m

\* C6: a call that leaves a required parameter unresolved, or has more
\* positional arguments than parameters, or a named argument that is no
\* parameter, is an error, the builtin's body is not entered and the G-code
\* buffer, the materials, the machining parameters and the transform are
\* what they were.  The error names the first unresolved required parameter;
\* failing that it reports the declared and the actual count; failing that
\* it names an unknown argument.
C6_CallShape ==
    [][Len(log') = Len(log) + 1 =>
          LET l == log'[Len(log')]
              c == l.stmt
          IN  (Unresolved(c) # {} \/ TooMany(c) \/ Unknown(c) # {}) =>
                 /\ l.status = "err" /\ ~l.ran
                 /\ gcode' = gcode /\ materials' = materials /\ global_vars' = global_vars
                 /\ IF Unresolved(c) # {}
                    THEN l.msg = "required" /\ l.who = Params(c.ident)[Min(Unresolved(c))].name
                    ELSE IF TooMany(c)
                    THEN l.msg = "arity" /\ l.expected = Len(Params(c.ident)) /\ l.got = Len(c.args)
                    ELSE l.msg = "unknown" /\ l.who \in Unknown(c)]_vars

\* C6 witness: a call with every required parameter resolved and no
\* positional argument too many was refused for its unknown named argument
\* "extra", the body not entered
C6_Witness ==
    \E j \in 1..Len(UserLog) :
        LET l == UserLog[j]
        IN  /\ l.msg = "unknown" /\ l.who = "extra" /\ ~l.ran
            /\ Unresolved(l.stmt) = {} /\ ~TooMany(l.stmt)

NextCall ==
    \/ WriteHeader
    \/ RunMaterials
    \/ BindCall
    \/ Finish

SpecCall == Init /\ [][NextCall]_vars

----------------------------------------------------------------------------
(* SpecLin: after the header and the materials, for-loops over linspace of  *)
(* every kind of start, stop and num, with an empty block.                  *)

\* the for-loops of the script, at most
MaxLoops == 1

Starts == {Unitless(0), Unitless(1), Mm(0), NumV(from_float(Flt(1, 2)))}

Stops == {Unitless(10), NumV(from_int_and_unit(1, "cm")), Mm(3)}

Nums ==
    {Unitless(-1), Unitless(0), Unitless(1), Unitless(2), Unitless(3), Unitless(5),
     NumV(from_float(Flt(5, 2))), Mm(3)}

\* Rule::forLoop up to its loop: the range expression, a call of linspace,
\* is evaluated; its error is the statement's, and a Range starts the loop
\* at i = 0.  values keeps the numbers the variable has been bound to.
ForLinspace ==
    /\ pc = "script"
    /\ loop = None
    /\ Len(UserLog) < MaxLoops
    /\ \E start \in Starts, stop \in Stops, num \in Nums :
         \E c \in {Call("linspace", <<start, stop, num>>, <<>>)} :
           \E r \in {call_builtin(c.ident, Engine, c.args, c.nargs, "", FALSE)} :
              IF r.status = "ok" /\ r.ret.t = "Range"
              THEN /\ loop' = Some([var |-> "i", range |-> r.ret, i |-> 0, stmt |-> c,
                                    values |-> <<>>])
                   /\ pc' = "loop"
                   /\ log' = log
              ELSE /\ loop' = None
                   /\ pc' = "failed"
                   /\ log' = Append(log, [stmt |-> c, status |-> "err", values |-> <<>>])
    /\ UNCHANGED <<global_vars, materials, gcode, out>>

\* one turn of `for i in 0..num`: global_vars.insert(loop_variable,
\* start + step * i), then the block
Iterate ==
    /\ pc = "loop"
    /\ Unwrap(loop).i < Unwrap(loop).range.num
    /\ \E v \in {NumberOp("add", Unwrap(loop).range.start,
                          NumberOp("mul", Unwrap(loop).range.step, from_int(Unwrap(loop).i)))} :
          /\ global_vars' = Insert(global_vars, Unwrap(loop).var, NumV(v))
          /\ loop' = Some([Unwrap(loop) EXCEPT !.i = @ + 1, !.values = Append(@, v)])
    /\ UNCHANGED <<materials, gcode, pc, out, log>>

\* the loop is left after num turns and the statement is Null
EndLoop ==
    /\ pc = "loop"
    /\ Unwrap(loop).i >= Unwrap(loop).range.num
    /\ log' = Append(log, [stmt |-> Unwrap(loop).stmt, status |-> "ok",
                           values |-> Unwrap(loop).values])
    /\ loop' = None
    /\ pc' = "script"
    /\ UNCHANGED <<global_vars, materials, gcode, out>>

\* start and stop are both plain or both lengths, and num is a plain
\* integer of at least n
Countable(c, n) ==
    /\ (c.args[1].n.unit = "none") = (c.args[2].n.unit = "none")
    /\ c.args[3].n.unit = "none" /\ c.args[3].n.int /\ c.args[3].n.v[1] >= n

\* what C9 says of the values a finished loop over call c bound
Linspaced(c, values) ==
    LET start == c.args[1].n
        stop == convert_unit(c.args[2].n, start.unit)
        num == c.args[3].n.v[1]
    IN  /\ Len(values) = num
        /\ \A k \in 1..num : values[k].unit = start.unit
        /\ FEq(values[1].v, start.v)
        /\ FEq(values[num].v, stop.v)
        /\ \A k \in 1..(num - 1) :
              FEq(FSub(values[k + 1].v, values[k].v),
                  FDiv(FSub(stop.v, start.v), FInt(num - 1)))

\* C9: a for-loop over linspace(start, stop, num) with num an integer >= 2
\* and start and stop both plain or both lengths runs to its end, having
\* bound the variable to exactly num values in start's unit, the first start,
\* the last stop in start's unit, neighbours (stop - start) / (num - 1)
\* apart; the variable holds the value bound last; linspace(0,10,5) gives
\* 0, 2.5, 5, 7.5, 10 and linspace(0mm,1cm,3) gives 0, 5, 10 mm.
C9_LinspaceValues ==
    /\ \A j \in 1..Len(UserLog) :
          LET l == UserLog[j]
          IN  Countable(l.stmt, 2) =>
                 /\ l.status = "ok"
                 /\ Linspaced(l.stmt, l.values)
                 /\ l.stmt.args = <<Unitless(0), Unitless(10), Unitless(5)>> =>
                       [k \in 1..5 |-> l.values[k].v] =
                          <<FInt(0), Flt(5, 2), FInt(5), Flt(15, 2), FInt(10)>>
                 /\ l.stmt.args = <<Mm(0), NumV(from_int_and_unit(1, "cm")), Unitless(3)>> =>
                       [k \in 1..3 |-> l.values[k].v] = <<FInt(0), FInt(5), FInt(10)>>
    /\ (IsSome(loop) /\ Unwrap(loop).values # <<>>) =>
          global_vars[Unwrap(loop).var] = NumV(Unwrap(loop).values[Len(Unwrap(loop).values)])

\* C9 witness: the loop over linspace(0mm, 1cm, 3) has ended and bound three
\* values in mm
C9_Witness ==
    \E j \in 1..Len(UserLog) :
        /\ UserLog[j].stmt.args = <<Mm(0), NumV(from_int_and_unit(1, "cm")), Unitless(3)>>
        /\ UserLog[j].status = "ok"
        /\ Len(UserLog[j].values) = 3
        /\ UserLog[j].values[3].unit = "mm"

\* C10 as stated: linspace fails and no Range is looped over whenever num is
\* not a plain integer of at least 1: for 0, for a negative num, for a num
\* that is no integer and for a num with a unit.
C10_CountValidation ==
    /\ \A j \in 1..Len(UserLog) :
          (UserLog[j].stmt.ident = "linspace" /\ ~Countable(UserLog[j].stmt, 1)) =>
              UserLog[j].status = "err"
    /\ IsSome(loop) => Countable(Unwrap(loop).stmt, 1)

NextLin ==
    \/ WriteHeader
    \/ RunMaterials
    \/ ForLinspace
    \/ Iterate
    \/ EndLoop
    \/ Finish

SpecLin == Init /\ [][NextLin]_vars

----------------------------------------------------------------------------
(* SpecMath: after the header and the materials, statements `r = a op b`    *)
(* over numbers of every unit, integer and floating, and over values that   *)
(* are no numbers.                                                          *)

\* the statements `r = a op b` of the script, at most
MaxMaths == 1

MathOps == {"add", "sub", "mul", "div"}

\* number literals: 2mm, 1cm, 3, 5mm, 1.5in, 1ft, 1yd, 1m
NumberOperands ==
    {Lit(Mm(2)), Lit(NumV(from_int_and_unit(1, "cm"))), Lit(Unitless(3)), Lit(Mm(5)),
     Lit(NumV(from_float_and_unit(Flt(3, 2), "in"))), Lit(NumV(from_int_and_unit(1, "ft"))),
     Lit(NumV(from_int_and_unit(1, "yd"))), Lit(NumV(from_int_and_unit(1, "m")))}

\* expressions whose value is a String, Null and a Range
OtherOperands ==
    {Lit(StrV("text")),
     FuncCall("comment", <<Positional(Lit(StrV("note")))>>),
     FuncCall("linspace", <<Positional(Lit(Unitless(0))), Positional(Lit(Unitless(1))),
                            Positional(Lit(Unitless(2)))>>)}

MathStatements ==
    {Assign("r", MathExpr(op, a, b)) : op \in MathOps, a \in NumberOperands, b \in NumberOperands}
    \cup {Assign("r", MathExpr(op, a, b)) : op \in MathOps, a \in OtherOperands, b \in {Lit(Mm(2))}}
    \cup {Assign("r", MathExpr(op, a, b)) : op \in MathOps, a \in {Lit(Mm(2))}, b \in OtherOperands}
    \cup {Assign("r", MathExpr("add", a, a)) : a \in OtherOperands}

\* ScriptEngine::run, one turn of its loop over a statement that is an
\* expression: exec(pair)?; the entry logged keeps the value returned
MathStatement ==
    /\ pc = "script"
    /\ Len(UserLog) < MaxMaths
    /\ \E s \in MathStatements :
         \E r \in {exec(Engine, s)} :
            /\ SetEngine(r.e)
            /\ log' = Append(log, [stmt |-> s, status |-> r.status, ret |-> r.ret])
            /\ pc' = CASE r.status = "ok" -> "script"
                       [] r.status = "err" -> "failed"
                       [] OTHER -> "aborted"
    /\ UNCHANGED <<out, loop>>

\* the operands of a logged statement `r = a op b` when both are number
\* literals
OfNumbers(l) == l.stmt.expr.lhs \in NumberOperands /\ l.stmt.expr.rhs \in NumberOperands

\* the millimetres in one of a unit
MmFactor(unit) ==
    CASE unit = "mm" -> FInt(1)
      [] unit = "cm" -> FInt(10)
      [] unit = "m"  -> FInt(1000)
      [] unit = "in" -> Flt(254, 10)
      [] unit = "ft" -> Flt(3048, 10)
      [] unit = "yd" -> Flt(9144, 10)

\* the magnitude of n in a unit, through millimetres; a number without unit,
\* and any number when no unit is asked for, is left as it is
MagnitudeIn(n, unit) ==
    IF n.unit = "none" \/ unit = "none" THEN n.v
    ELSE FDiv(FMul(n.v, MmFactor(n.unit)), MmFactor(unit))

Apply(op, x, y) ==
    CASE op = "add" -> FAdd(x, y)
      [] op = "sub" -> FSub(x, y)
      [] op = "mul" -> FMul(x, y)
      [] op = "div" -> FDiv(x, y)

\* the value of the logged statement is the number m of unit u
Gives(l, m, u) == l.status = "ok" /\ l.ret.t = "Number" /\ FEq(l.ret.n.v, m) /\ l.ret.n.unit = u

\* C11: a op b for numbers a, b and an operator among + - * / has a's unit,
\* or b's when a has none, and its magnitude is the operator applied to the
\* two magnitudes converted to that unit through the millimetre factors, an
\* operand without unit left as it is; 2mm + 1cm is 12mm, 1cm + 2mm is 1.2cm
\* and 3 + 5mm is 8mm.
C11_UnitReconciling ==
    \A j \in 1..Len(UserLog) :
        LET l == UserLog[j]
            a == l.stmt.expr.lhs.v.n
            b == l.stmt.expr.rhs.v.n
            op == l.stmt.expr.op
            dst == IF a.unit = "none" THEN b.unit ELSE a.unit
        IN  OfNumbers(l) =>
               /\ Gives(l, Apply(op, MagnitudeIn(a, dst), MagnitudeIn(b, dst)), dst)
               /\ (op = "add" /\ a = Mm(2).n /\ b.unit = "cm") => Gives(l, FInt(12), "mm")
               /\ (op = "add" /\ a.unit = "cm" /\ b = Mm(2).n) => Gives(l, Flt(12, 10), "cm")
               /\ (op = "add" /\ a.unit = "none" /\ b = Mm(5).n) => Gives(l, FInt(8), "mm")

\* C11 witness: 1cm + 2mm was executed and gave 1.2cm
C11_Witness ==
    \E j \in 1..Len(UserLog) :
        /\ UserLog[j].stmt = Assign("r", MathExpr("add", Lit(NumV(from_int_and_unit(1, "cm"))),
                                                Lit(Mm(2))))
        /\ Gives(UserLog[j], Flt(12, 10), "cm")
        /\ "r" \in DOMAIN global_vars /\ global_vars["r"] = UserLog[j].ret

\* both operands of the logged statement are Integers
OfIntegers(l) == OfNumbers(l) /\ l.stmt.expr.lhs.v.n.int /\ l.stmt.expr.rhs.v.n.int

\* the operands have one unit, or one of them has none
NoConversion(l) ==
    \/ l.stmt.expr.lhs.v.n.unit = l.stmt.expr.rhs.v.n.unit
    \/ l.stmt.expr.lhs.v.n.unit = "none"
    \/ l.stmt.expr.rhs.v.n.unit = "none"

\* C12 as stated: + - * of two numbers of integer magnitude is of integer
\* magnitude whatever the units of the two are, and / is always of floating
\* magnitude.
C12_IntegerPreserved ==
    \A j \in 1..Len(UserLog) :
        LET l == UserLog[j]
        IN  /\ (OfIntegers(l) /\ l.stmt.expr.op # "div") => (l.status = "ok" /\ l.ret.n.int)
            /\ (OfNumbers(l) /\ l.stmt.expr.op = "div") => (l.status = "ok" /\ ~l.ret.n.int)

\* C12 amended: + - * of two numbers of integer magnitude is of integer
\* magnitude when the two have the same unit or one of them has none; when
\* their units differ the right operand is converted and the result is of
\* floating magnitude; / is always of floating magnitude.
C12_IntegerPreservedUnconverted ==
    \A j \in 1..Len(UserLog) :
        LET l == UserLog[j]
        IN  /\ (OfIntegers(l) /\ l.stmt.expr.op # "div") =>
                   (l.status = "ok" /\ (l.ret.n.int <=> NoConversion(l)))
            /\ (OfNumbers(l) /\ l.stmt.expr.op = "div") => (l.status = "ok" /\ ~l.ret.n.int)

\* C12 witness: 3 * 5mm was executed and gave the Integer 15 in mm
C12_Witness ==
    \E j \in 1..Len(UserLog) :
        /\ UserLog[j].stmt = Assign("r", MathExpr("mul", Lit(Unitless(3)), Lit(Mm(5))))
        /\ Gives(UserLog[j], FInt(15), "mm")
        /\ UserLog[j].ret.n.int

\* the logged statement has an operand that is no number
OfOther(l) == l.stmt.expr.lhs \in OtherOperands \/ l.stmt.expr.rhs \in OtherOperands

\* C13 as stated: an operator applied to an operand that is a String, a
\* Range or Null ends in an error returned to the caller of run, and the run
\* is never ended by a crash.
C13_TypedFailure ==
    /\ \A j \in 1..Len(UserLog) : OfOther(UserLog[j]) => UserLog[j].status = "err"
    /\ pc # "aborted"

NextMath ==
    \/ WriteHeader
    \/ RunMaterials
    \/ MathStatement
    \/ Finish

SpecMath == Init /\ [][NextMath]_vars

----------------------------------------------------------------------------
(* SpecFor: after the header and the materials, assignments and then        *)
(* for-loops whose range expression is a Range of 0, 1, 2 or 3 values, a    *)
(* number or an unbound name, and whose block assigns to the loop variable  *)
(* and to the variable the range expression reads.                          *)

\* the for-loops of the script, at most
MaxFors == 1

\* Rule::forLoop: loop variable, range expression, block
ForLoop(ident, range, block) ==
    [rule |-> "forLoop", ident |-> ident, range |-> range, block |-> block]

Linspace(start, stop, num) ==
    FuncCall("linspace", <<Positional(start), Positional(stop), Positional(num)>>)

\* linspace(0, 10, k) for k = 0, 1, 3; linspace(0mm, 1cm, n); 3; n
RangeExprs ==
    {Linspace(Lit(Unitless(0)), Lit(Unitless(10)), Lit(Unitless(k))) : k \in {0, 1, 3}}
    \cup {Linspace(Lit(Mm(0)), Lit(NumV(from_int_and_unit(1, "cm"))), Ident("n")),
          Lit(Unitless(3)), Ident("n")}

\* { }, { seen = i  i = 99 }, { n = n + 1 }, { nowhere }
Blocks ==
    {<<>>,
     <<Assign("seen", Ident("i")), Assign("i", Lit(Unitless(99)))>>,
     <<Assign("n", MathExpr("add", Ident("n"), Lit(Unitless(1))))>>,
     <<Ident("nowhere")>>}

ForLoops == {ForLoop("i", range, block) : range \in RangeExprs, block \in Blocks}

\* the for-loops executed or begun so far
ForCount ==
    Cardinality({j \in 1..Len(UserLog) : UserLog[j].stmt.rule = "forLoop"})
    + (IF IsSome(loop) THEN 1 ELSE 0)

\* the loop that binds the variable to start + step * (i + 1)
loop_value_from_one(range, i) ==
    NumberOp("add", range.start, NumberOp("mul", range.step, from_int(i + 1)))

\* Rule::forLoop: start + step * (i as i64).into()
loop_value(range, i) ==
    NumberOp("add", range.start, NumberOp("mul", range.step, from_int(i)))

\* the calls of exec the interpreter may make next, each with the engine it
\* is made on and the pair it is made with: a statement `n = 2` or `i = 7`
\* before the first loop, the range expression of a for-loop, or the block of
\* the loop under way, after global_vars.insert(loop_variable, ..)
ForJobs ==
    (IF pc = "script" /\ loop = None /\ ForCount = 0
     THEN {[kind |-> "assign", stmt |-> s, e |-> Engine, pair |-> s, v |-> from_int(0)] :
              s \in {s \in {Assign("n", Lit(Unitless(2))), Assign("i", Lit(Unitless(7)))} :
                        s.ident \notin DOMAIN global_vars}}
     ELSE {})
    \cup (IF pc = "script" /\ loop = None /\ ForCount < MaxFors
          THEN {[kind |-> "range", stmt |-> s, e |-> Engine, pair |-> s.range, v |-> from_int(0)] :
                   s \in ForLoops}
          ELSE {})
    \cup (IF pc = "loop" /\ Unwrap(loop).i < Unwrap(loop).range.num
          THEN {[kind |-> "block", stmt |-> Unwrap(loop).stmt,
                 e |-> [Engine EXCEPT !.global_vars = Insert(@, Unwrap(loop).var, NumV(v))],
                 pair |-> Block(Unwrap(loop).stmt.block), v |-> v] :
                   v \in {loop_value(Unwrap(loop).range, Unwrap(loop).i)}}
          ELSE {})

\* ScriptEngine::run, one turn over the statement `n = 2` or `i = 7`, with r
\* what exec returned
AssignBefore(job, r) ==
    /\ job.kind = "assign"
    /\ SetEngine(r.e)
    /\ log' = Append(log, [stmt |-> job.stmt, status |-> r.status])
    /\ UNCHANGED <<pc, out, loop>>

\* Rule::forLoop up to its loop, with r what exec returned for the range
\* expression: its error, or "Expected range" for a value that is no Range,
\* is the statement's, and a Range starts the loop at i = 0.  env0 keeps the
\* variables as they were before the statement.
ForEnter(job, r) ==
    /\ job.kind = "range"
    /\ SetEngine(r.e)
    /\ IF r.status = "ok" /\ r.ret.t = "Range"
       THEN /\ loop' = Some([var |-> job.stmt.ident, range |-> r.ret, i |-> 0, stmt |-> job.stmt,
                             values |-> <<>>, env0 |-> global_vars])
            /\ pc' = "loop"
            /\ log' = log
       ELSE /\ loop' = None
            /\ pc' = IF r.status \in {"ok", "err"} THEN "failed" ELSE "aborted"
            /\ log' = Append(log, [stmt |-> job.stmt, status |-> IF r.status = "ok" THEN "err"
                                                                 ELSE r.status,
                                   values |-> <<>>, env0 |-> global_vars])
    /\ UNCHANGED out

\* one turn of `for i in 0..num`: global_vars.insert(loop_variable, ..), then
\* self.exec(block)?, whose error ends the loop and is the statement's; r is
\* what exec returned for the block
ForIterate(job, r) ==
    /\ job.kind = "block"
    /\ SetEngine(r.e)
    /\ IF r.status = "ok"
       THEN /\ loop' = Some([Unwrap(loop) EXCEPT !.i = @ + 1, !.values = Append(@, job.v)])
            /\ UNCHANGED <<pc, log>>
       ELSE /\ loop' = None
            /\ pc' = IF r.status = "err" THEN "failed" ELSE "aborted"
            /\ log' = Append(log, [stmt |-> job.stmt, status |-> r.status,
                                   values |-> Append(Unwrap(loop).values, job.v),
                                   env0 |-> Unwrap(loop).env0])
    /\ UNCHANGED out

\* ScriptEngine::exec called for a statement, a range expression or a block
ForExec ==
    \E job \in ForJobs :
       \E r \in {exec(job.e, job.pair)} :
          \/ AssignBefore(job, r)
          \/ ForEnter(job, r)
          \/ ForIterate(job, r)

\* the loop is left after num turns and the statement is Null
ForLeave ==
    /\ pc = "loop"
    /\ Unwrap(loop).i >= Unwrap(loop).range.num
    /\ log' = Append(log, [stmt |-> Unwrap(loop).stmt, status |-> "ok",
                           values |-> Unwrap(loop).values, env0 |-> Unwrap(loop).env0])
    /\ loop' = None
    /\ pc' = "script"
    /\ UNCHANGED <<global_vars, materials, gcode, out>>

\* start + step * i in start's unit
Expect(range, i) ==
    Number(range.start.int /\ range.step.int,
           FAdd(range.start.v, FMul(range.step.v, FInt(i))), range.start.unit)

\* the steps of a loop: entered with a Range, refused, one iteration, left
Entered == loop = None /\ IsSome(loop')

Refused == loop = None /\ loop' = None /\ Len(log') = Len(log) + 1
           /\ log'[Len(log')].stmt.rule = "forLoop"

Iterated == IsSome(loop) /\ IsSome(loop') /\ Unwrap(loop').i = Unwrap(loop).i + 1

Left == IsSome(loop) /\ loop' = None /\ log'[Len(log')].status = "ok"

\* the Number a variable holds: the same f64 (NaN for NaN) and unit
Holds(env, var, n) ==
    var \in DOMAIN env /\ env[var].t = "Number"
    /\ env[var].n.v = n.v /\ env[var].n.unit = n.unit

\* what C14 says of every step of a loop
ForStep ==
    /\ Entered =>
         /\ Unwrap(loop').i = 0 /\ Unwrap(loop').range.t = "Range"
         /\ global_vars' = global_vars
         /\ Unwrap(loop').stmt.range = Linspace(Lit(Mm(0)), Lit(NumV(from_int_and_unit(1, "cm"))),
                                                Ident("n"))
                => Unwrap(loop').range.num = global_vars["n"].n.v[1]
    /\ Refused => global_vars' = global_vars /\ gcode' = gcode /\ pc' = "failed"
    /\ Iterated =>
         LET l == Unwrap(loop)
             block == l.stmt.block
         IN  /\ l.i < l.range.num
             /\ Unwrap(loop').range = l.range
             /\ block = <<>> => Holds(global_vars', "i", Expect(l.range, l.i))
             /\ (block # <<>> /\ block[1].ident = "seen") =>
                    /\ Holds(global_vars', "seen", Expect(l.range, l.i))
                    /\ Holds(global_vars', "i", from_int(99))
             /\ (block # <<>> /\ block[1].ident = "n") =>
                    /\ Holds(global_vars', "i", Expect(l.range, l.i))
                    /\ Holds(global_vars', "n", from_int(global_vars["n"].n.v[1] + 1))
    /\ Left =>
         LET l == Unwrap(loop)
         IN  /\ l.i = l.range.num /\ Len(l.values) = l.range.num
             /\ global_vars' = global_vars
             /\ l.range.num = 0 => global_vars = l.env0
             /\ (l.range.num > 0 /\ l.stmt.block = <<>>) =>
                    Holds(global_vars, "i", Expect(l.range, l.range.num - 1))
             /\ (l.range.num > 0 /\ l.stmt.block # <<>> /\ l.stmt.block[1].ident = "n") =>
                    Holds(global_vars, "n", from_int(l.env0["n"].n.v[1] + l.range.num))

\* C14: the range expression is evaluated once, when the loop is entered: a
\* block that changes the variable it reads does not change the count.  The
\* block runs exactly count times, and at the start of iteration i the loop
\* variable holds start + step * i whatever the block assigned before.  When
\* the loop is left nothing is restored: the variable keeps the value bound
\* or assigned last, and after zero iterations the variables are what they
\* were.  An expression that is no Range fails the loop with the variables
\* and the G-code untouched.
C14_ForSemantics == [][ForStep]_vars

\* C14 witness: a loop over the two values of linspace(0mm, 1cm, n) whose
\* block is { n = n + 1 } was left with n = 4 and i = 1cm in mm
C14_Witness ==
    /\ pc = "script" /\ UserLog # <<>>
    /\ LET l == UserLog[Len(UserLog)]
       IN  /\ l.stmt.rule = "forLoop" /\ l.status = "ok"
           /\ Len(l.values) = 2
           /\ Holds(global_vars, "n", from_int(4))
           /\ Holds(global_vars, "i", from_int_and_unit(10, "mm"))

NextFor ==
    \/ WriteHeader
    \/ RunMaterials
    \/ ForExec
    \/ ForLeave
    \/ Finish

SpecFor == Init /\ [][NextFor]_vars

----------------------------------------------------------------------------
(* SpecMat: after the header and the materials script, define_material and  *)
(* material statements in any order, over names that are registered by the  *)
(* materials script, by the user's script, twice, and not at all.           *)

\* the statements of the script, at most
MaxMats == 3

\* define_material(name, k, k, 100k, 50k, 1000k)
DefineCall(name, k) ==
    Call("define_material",
         <<StrV(name), Unitless(k), Unitless(k), Unitless(100 * k), Unitless(50 * k),
           Unitless(1000 * k)>>, <<>>)

MaterialCalls ==
    {DefineCall(name, k) : name \in {"aluminum", "brass"}, k \in {3, 4}}
    \cup {Call("define_material",
               <<StrV("brass"), Mm(1), Unitless(1), Unitless(100), Unitless(50), Unitless(1000)>>,
               <<>>)}
    \cup {Call("material", <<StrV(name)>>, <<>>) : name \in {"aluminum", "wood", "brass", "steel"}}

\* ScriptEngine::run, one turn of its loop over a define_material or
\* material statement
MaterialStatement ==
    /\ pc = "script"
    /\ Len(UserLog) < MaxMats
    /\ \E c \in MaterialCalls :
         \E r \in {run(<<c>>, 1, Engine, <<>>)} :
            /\ SetEngine(r.e)
            /\ log' = log \o r.log
            /\ pc' = CASE r.status = "ok" -> "script"
                       [] r.status = "err" -> "failed"
                       [] OTHER -> "aborted"
    /\ UNCHANGED <<out, loop>>

\* the successful calls of a builtin logged, by position; for
\* define_material those of one name before position j
Selected(l) ==
    {j \in 1..Len(l) : l[j].stmt.ident = "material" /\ l[j].status = "ok"}

Registrations(l, name, j) ==
    {k \in 1..(j - 1) : /\ l[k].stmt.ident = "define_material" /\ l[k].status = "ok"
                        /\ l[k].stmt.args[1].s = name}

Max(S) == CHOOSE k \in S : \A m \in S : m <= k

\* the preset a successful define_material statement registers
PresetOf(c) ==
    Material(c.args[2].n.v, c.args[3].n.v, c.args[4].n.v, c.args[5].n.v, c.args[6].n.v)

\* the preset in force after the statements logged in l: the one registered
\* last under the name of the last successful material call, before that
\* call; none when material was never called
ActivePreset(l) ==
    IF Selected(l) = {} THEN None
    ELSE LET j == Max(Selected(l))
         IN  Some(PresetOf(l[Max(Registrations(l, l[j].stmt.args[1].s, j))].stmt))

\* the machining parameters of g are those of the preset, or the initial
\* ones
Active(g, preset) ==
    LET p == IF IsSome(preset) THEN Unwrap(preset)
             ELSE Material(FInt(0), FInt(0), FInt(0), FInt(0), FInt(0))
    IN  /\ g.stepover = p.stepover /\ g.depth_per_pass = p.depth_per_pass
        /\ g.feed_rate = p.feed_rate /\ g.plunge_rate = p.plunge_rate

\* what C15 says of every step
MaterialStep ==
    /\ Active(gcode', ActivePreset(log'))
    /\ gcode'.cutter_diameter = gcode.cutter_diameter
    /\ gcode'.transformation = gcode.transformation
    /\ \A c \in MaterialCalls :
          Executes(c) =>
             IF c.ident = "define_material" THEN gcode' = gcode
             ELSE IF Registrations(log, c.args[1].s, Len(log) + 1) = {}
             THEN LastStatus' = "err" /\ gcode' = gcode /\ materials' = materials
             ELSE /\ LastStatus' = "ok"
                  /\ gcode'.program =
                        Append(gcode.program, SpindleOnCW(Unwrap(ActivePreset(log')).rpm))

\* C15: after any sequence of define_material and material statements the
\* stepover, depth per pass, feed rate and plunge rate are those of the
\* preset registered last under the name of the last successful material
\* call, as it stood at that call; a successful material call pushes the
\* spindle-on with the preset's rpm; material with a name never registered
\* fails, changing no parameter and buffering nothing; define_material
\* changes nothing of GcodeState; the cutter diameter and the transformation
\* are never changed.
C15_MaterialsRegistry == [][MaterialStep]_vars

\* C15 witness: brass was registered, selected and registered again with
\* other values: the parameters in force are the first registration's
C15_Witness ==
    /\ Len(UserLog) = 3
    /\ UserLog[1].stmt = DefineCall("brass", 3) /\ UserLog[2].stmt.ident = "material"
    /\ UserLog[2].status = "ok" /\ UserLog[2].stmt.args[1].s = "brass"
    /\ UserLog[3].stmt = DefineCall("brass", 4) /\ UserLog[3].status = "ok"
    /\ gcode.stepover = FInt(3) /\ materials["brass"].stepover = FInt(4)

NextMat ==
    \/ WriteHeader
    \/ RunMaterials
    \/ MaterialStatement
    \/ Finish

SpecMat == Init /\ [][NextMat]_vars

----------------------------------------------------------------------------
(* SpecPath: after the header and the materials script, the toolpath        *)
(* builtins contour_line, groove_pocket and circle_pocket, before and after *)
(* the cutter diameter and a material have been chosen.                     *)

\* the toolpath statements of the script, at most
MaxPaths == 1

\* contour_line from (1mm, 2mm) to (10mm, 2mm), or up by 10mm
ContourCalls ==
    {Call("contour_line", <<Mm(1), Mm(2), Mm(10), Mm(2), depth>>, <<>>)
        : depth \in {Mm(1), Mm(3), MmF(5, 2)}}
    \cup {Call("contour_line", <<Mm(1), Mm(2)>>, [depth |-> depth, up |-> Mm(10)])
              : depth \in {Mm(1), MmF(5, 2)}}

\* groove_pocket at (1mm, 2mm), 1mm deep: 12 x 12, 14 x 6, 12 x 20 and 6 x 6
GrooveCalls ==
    {Call("groove_pocket", <<Mm(1), Mm(2), Mm(wh[1]), Mm(wh[2]), Mm(1)>>, <<>>)
        : wh \in {<<12, 12>>, <<14, 6>>, <<12, 20>>, <<6, 6>>}}

PathCalls ==
    ContourCalls \cup GrooveCalls
    \cup {Call("circle_pocket", <<Mm(0), Mm(0)>>, [diameter |-> Mm(12), depth |-> Mm(1)])}

\* the toolpath statements executed so far
PathCount == Cardinality({j \in 1..Len(UserLog) : UserLog[j].stmt \in PathCalls})

\* ScriptEngine::run, one turn over cutter_diameter(5mm) or material(..),
\* each given once
SetupStatement ==
    /\ pc = "script"
    /\ \E c \in {Call("cutter_diameter", <<Mm(5)>>, <<>>),
                  Call("material", <<StrV("aluminum")>>, <<>>),
                  Call("material", <<StrV("wood")>>, <<>>)} :
         /\ \A j \in 1..Len(UserLog) : UserLog[j].stmt.ident # c.ident
         /\ \E r \in {run(<<c>>, 1, Engine, <<>>)} :
               /\ SetEngine(r.e)
               /\ log' = log \o r.log
    /\ UNCHANGED <<pc, out, loop>>

\* ScriptEngine::run, one turn over a toolpath statement
PathStatement ==
    /\ pc = "script"
    /\ PathCount < MaxPaths
    /\ \E c \in PathCalls :
         \E r \in {run(<<c>>, 1, Engine, <<>>)} :
            /\ SetEngine(r.e)
            /\ log' = log \o r.log
            /\ pc' = CASE r.status = "ok" -> "script"
                       [] r.status = "err" -> "failed"
                       [] OTHER -> "aborted"
    /\ UNCHANGED <<out, loop>>

\* the instructions a step pushes
Pushed == SubSeq(gcode'.program, Len(gcode.program) + 1, Len(gcode'.program))

\* the end of a contour_line call, in millimetres
ContourEnd(c) ==
    IF "up" \in DOMAIN c.nargs THEN <<InMm(c.args[1]), FAdd(InMm(c.args[2]), InMm(c.nargs.up))>>
    ELSE <<InMm(c.args[3]), InMm(c.args[4])>>

ContourDepth(c) == IF "depth" \in DOMAIN c.nargs THEN InMm(c.nargs.depth) ELSE InMm(c.args[5])

\* the least n with depth <= n * depth_per_pass, for positive numbers
Ceiling(depth, depth_per_pass) ==
    CHOOSE n \in 1..100 : /\ FLe(depth, FMul(FInt(n), depth_per_pass))
                          /\ FLt(FMul(FInt(n - 1), depth_per_pass), depth)

\* pass i of n from (x1, y1) to (x2, y2)
Pass(g, x1, y1, x2, y2, depth, i, n) ==
    <<RapidMoveG(Some(x1), Some(y1), None),
      LinearMoveG(None, None, Some(FNeg(FDiv(FMul(depth, FInt(i)), FInt(n)))), g.plunge_rate),
      LinearMoveG(Some(x2), Some(y2), None, g.feed_rate),
      RapidMoveG(Some(x2), Some(y2), Some(FInt(5)))>>

\* what C16 says of a step that executes contour_line
ContourStep(c) ==
    LET depth == ContourDepth(c)
        n == Ceiling(depth, gcode.depth_per_pass)
        to == ContourEnd(c)
        z(i) == Pushed[4 * (i - 1) + 2].z[1]
    IN  /\ LastStatus' = "ok"
        /\ Len(Pushed) = 4 * n
        /\ \A i \in 1..n :
              SubSeq(Pushed, 4 * (i - 1) + 1, 4 * i)
                 = Pass(gcode, InMm(c.args[1]), InMm(c.args[2]), to[1], to[2], depth, i, n)
        /\ \A i \in 1..(n - 1) :
              FLt(z(i + 1), z(i)) /\ FLe(FSub(z(i), z(i + 1)), gcode.depth_per_pass)
        /\ FLe(FNeg(z(1)), gcode.depth_per_pass)
        /\ FEq(z(n), FNeg(depth))

\* C16: with a positive depth per pass, contour_line of a positive depth
\* buffers exactly n = ceil(depth / depth_per_pass) passes, pass i being the
\* rapid to (x1, y1), the plunge to -depth * i / n, the feed move to (x2, y2)
\* and the rapid to Z5; each pass is deeper than the one before by at most
\* depth_per_pass and the last is at -depth.
C16_ContourPasses ==
    [][\A c \in ContourCalls :
          (Executes(c) /\ FLt(FInt(0), gcode.depth_per_pass)) => ContourStep(c)]_vars

\* C16 witness: contour_line of depth 2.5mm in aluminum (1mm per pass) has
\* buffered three passes
C16_Witness ==
    /\ UserLog # <<>>
    /\ UserLog[Len(UserLog)].stmt = Call("contour_line", <<Mm(1), Mm(2), Mm(10), Mm(2), MmF(5, 2)>>, <<>>)
    /\ UserLog[Len(UserLog)].status = "ok"
    /\ gcode.depth_per_pass = FInt(1)
    /\ Len(gcode.program) >= 12
    /\ gcode.program[Len(gcode.program) - 2].z = Some(Flt(-5, 2))

\* the pushed instructions that are rapid or feed moves naming X and Y
Targets == {k \in 1..Len(Pushed) : /\ Pushed[k].op \in {"RapidMove", "LinearMove"}
                                    /\ IsSome(Pushed[k].x) /\ IsSome(Pushed[k].y)}

Within(v, lo, hi) == FLe(lo, v) /\ FLe(v, hi)

\* C19 as stated: with a positive cutter diameter and stepover, a
\* groove_pocket(x, y, width, height, depth) wider and higher than the
\* cutter, of any proportions, sends every rapid and feed move to a point
\* with X in [x + cutter/2, x + width - cutter/2] and Y in
\* [y + cutter/2, y + height - cutter/2].
C19_InsidePocket ==
    [][\A c \in GrooveCalls :
          (/\ Executes(c)
           /\ FLt(FInt(0), gcode.cutter_diameter) /\ FLt(FInt(0), gcode.stepover)
           /\ FLt(gcode.cutter_diameter, InMm(c.args[3]))
           /\ FLt(gcode.cutter_diameter, InMm(c.args[4]))) =>
              LET half == FDiv(gcode.cutter_diameter, FInt(2))
                  x == InMm(c.args[1])
                  y == InMm(c.args[2])
              IN  \A k \in Targets :
                     /\ Within(Pushed[k].x[1], FAdd(x, half),
                               FSub(FAdd(x, InMm(c.args[3])), half))
                     /\ Within(Pushed[k].y[1], FAdd(y, half),
                               FSub(FAdd(y, InMm(c.args[4])), half))]_vars

\* C20 as stated: every contour_line, circle_pocket and groove_pocket call
\* returns, Ok after buffering the moves of its passes, circles and loops or
\* with the error of an argument check, whatever the parameters are, those
\* of the initial state included.
C20_Terminates ==
    [][\A c \in PathCalls : Executes(c) => LastStatus' \in {"ok", "err"}]_vars

\* C21 as stated: a groove_pocket call with a positive depth that reaches
\* the pass loop (cutter diameter, stepover and depth per pass set) has
\* n_loops = 1 + ceil((width/2 - cutter_diameter) / stepover) >= 1, so its
\* pattern has a first point and the call returns Ok with moves to it;
\* dimensions for which the count would be lower end in an error returned,
\* never in a panic.
C21_PatternNotEmpty ==
    [][\A c \in GrooveCalls :
          (/\ Executes(c)
           /\ FLt(FInt(0), InMm(c.args[5]))
           /\ FLt(FInt(0), gcode.cutter_diameter) /\ FLt(FInt(0), gcode.stepover)
           /\ FLt(FInt(0), gcode.depth_per_pass)) =>
              /\ LastStatus' \in {"ok", "err"}
              /\ LastStatus' = "ok" => Targets # {}]_vars

NextPath ==
    \/ WriteHeader
    \/ RunMaterials
    \/ SetupStatement
    \/ PathStatement
    \/ Finish

SpecPath == Init /\ [][NextPath]_vars

----------------------------------------------------------------------------
(* SpecArgs: calls of scale whose argument expressions have side effects:   *)
(* assignments to t and nested comment calls.                               *)

MaxArgs == 2

\* t = t * 10 + d: an argument expression that appends the digit d to t and
\* has the new t as its value, so that t spells the order of evaluation
Bump(d) ==
    Assign("t", MathExpr("add", MathExpr("mul", Ident("t"), Lit(Unitless(10))), Lit(Unitless(d))))

\* comment('s') as an argument expression: it buffers a comment
Note(s) == FuncCall("comment", <<Positional(Lit(StrV(s)))>>)

ArgExprs == {Bump(1), Bump(2), Note("a"), Note("b")}

\* the parameter of a call: a bare expression or identifier "=" expression
FuncParam == {Positional(a) : a \in ArgExprs} \cup {Named(n, a) : n \in {"x", "y"}, a \in ArgExprs}

\* the parameter lists of the grammar's function-call rule: each parameter is
\* positional or named, in whatever order they are written
FuncParams == {<<p, q>> : p \in FuncParam, q \in FuncParam}

ArgCalls == {FuncCall("scale", ps) : ps \in FuncParams}

ArgCount == Cardinality({j \in 1..Len(UserLog) : UserLog[j].stmt \in ArgCalls})

\* the statements the script may go on with: t = 0 first, then the calls
ArgStatements ==
    IF "t" \in DOMAIN global_vars THEN ArgCalls ELSE {Assign("t", Lit(Unitless(0)))}

\* ScriptEngine::run, one turn over a statement: t = 0 or a call of scale
ArgsStatement ==
    /\ pc = "script"
    /\ ArgCount < MaxArgs
    /\ \E c \in ArgStatements :
         \E r \in {exec(Engine, c)} :
            /\ SetEngine(r.e)
            /\ log' = Append(log, [stmt |-> c, status |-> r.status, ret |-> r.ret])
            /\ pc' = CASE r.status = "ok" -> "script"
                       [] r.status = "err" -> "failed"
                       [] OTHER -> "aborted"
    /\ UNCHANGED <<out, loop>>

IsPositional(p) == p.rule = "positionalParam"

IsNamed(p) == p.rule = "namedParam"

\* the order of evaluation the claim states: the positional parameters left
\* to right, then the named ones as written
PositionalFirst(params) == SelectSeq(params, IsPositional) \o SelectSeq(params, IsNamed)

IsBump(p) == p.expr.rule = "assign"

\* the integer t holds after the first k parameters of order were evaluated
\* with t = t0 before
RECURSIVE TAfter(_, _, _)
TAfter(t0, order, k) ==
    IF k = 0 THEN t0
    ELSE IF IsBump(order[k]) THEN TAfter(t0, order, k - 1) * 10 + order[k].expr.expr.rhs.v.n.v[1]
    ELSE TAfter(t0, order, k - 1)

\* the comments the parameters of order buffer, in order
RECURSIVE NotesOf(_, _)
NotesOf(order, k) ==
    IF k = 0 THEN <<>>
    ELSE IF IsBump(order[k]) THEN NotesOf(order, k - 1)
    ELSE Append(NotesOf(order, k - 1), Comment(order[k].expr.params[1].expr.v.s))

\* the value of the parameter that binds x (y): the named one if written,
\* else the positional one at index 1 (2)
BindsAt(order, name, idx) ==
    IF \E k \in 1..Len(order) : IsNamed(order[k]) /\ order[k].ident = name
    THEN CHOOSE k \in 1..Len(order) : IsNamed(order[k]) /\ order[k].ident = name
    ELSE idx

\* the step's effects are those of evaluating the parameters in order
\* and then calling scale
EvaluatedIn(order) ==
    LET t0 == global_vars.t.n.v[1]
    IN  /\ global_vars'.t = Unitless(TAfter(t0, order, Len(order)))
        /\ Pushed = NotesOf(order, Len(order))
        /\ LastStatus' = "ok" =>
              gcode'.transformation =
                  <<FInt(TAfter(t0, order, BindsAt(order, "x", 1))),
                    FInt(TAfter(t0, order, BindsAt(order, "y", 2)))>>

\* C17 as stated: in every function call the positional argument expressions
\* are evaluated first, left to right, and then the named ones in the order
\* they are written; the side effects (assignments, comments buffered by
\* nested calls) happen in that order, all of them before the builtin is
\* dispatched with the values.
C17_ArgumentOrder ==
    [][\A c \in ArgCalls :
          (Executes(c) /\ LastStatus' \in {"ok", "err"}) =>
              EvaluatedIn(PositionalFirst(c.params))]_vars

NextArgs ==
    \/ WriteHeader
    \/ RunMaterials
    \/ ArgsStatement
    \/ Finish

SpecArgs == Init /\ [][NextArgs]_vars

----------------------------------------------------------------------------
(* SpecArc: after the header and the materials, rapid moves, arcs and scale *)
(* in any order, then the program is written.                               *)

\* the calls made after the header, at most
MaxArcs == 3

ArcEnds == {<<FInt(0), FInt(0)>>, <<FInt(2), FInt(0)>>, <<FInt(4), FInt(1)>>}

ArcCentres == {<<FInt(1), FInt(0)>>, <<FInt(3), FInt(0)>>}

MayArc == pc = "script" /\ Len(gcode.program) < HeaderLen + MaxArcs

ArcRapid ==
    /\ MayArc
    /\ \E xy \in ArcEnds : gcode' = rapid_move_xy(gcode, xy[1], xy[2])
    /\ UNCHANGED <<global_vars, materials, pc, out, log, loop>>

ArcCut ==
    /\ MayArc
    /\ \E xy \in ArcEnds, c \in ArcCentres : gcode' = arc_cut(gcode, xy[1], xy[2], c[1], c[2])
    /\ UNCHANGED <<global_vars, materials, pc, out, log, loop>>

\* scale(2, 1), once
ArcScale ==
    /\ MayArc
    /\ gcode.transformation = GcodeStateNew.transformation
    /\ \E r \in {builtin_scale(Engine, from_int(2), from_int(1))} : SetEngine(r.e)
    /\ UNCHANGED <<pc, out, log, loop>>

LastIsArc == HasLast /\ LastInstr.op = "CounterClockwiseArc"

\* the line holds the word letter with the value v as it is formatted
HasWord(line, letter, v) ==
    \E k \in 1..Len(line.words) : line.words[k] = VWord(letter, format_number(v))

\* the line written for the arc holds I and J, the centre less the position
\* tracked before the line
CentreWords(instr, before, after) ==
    (before.ok /\ Emitted(before, after)) =>
        /\ IsSome(before.state["X"]) /\ IsSome(before.state["Y"])
        /\ HasWord(LastLine(after), "I", FSub(instr.cx, Unwrap(before.state["X"])))
        /\ HasWord(LastLine(after), "J", FSub(instr.cy, Unwrap(before.state["Y"])))

\* C18 as stated: every line written for a counter-clockwise arc carries an
\* I word equal to the transformed centre X less the X tracked before the
\* line and a J word equal to the transformed centre Y less the tracked Y,
\* for every arc of any sequence of arcs, consecutive arcs with an equal I or
\* J offset included.
C18_ArcCentreWords ==
    LastIsArc =>
        LET before == Before
            after == After(before)
        IN  CentreWords(LastInstr, before, after)

NextArc ==
    \/ WriteHeader
    \/ RunMaterials
    \/ ArcRapid
    \/ ArcCut
    \/ ArcScale
    \/ Finish

SpecArc == Init /\ [][NextArc]_vars

Next == NextEmit \/ NextRun \/ NextCall \/ NextLin \/ NextMath \/ NextFor \/ NextMat \/ NextPath
            \/ NextArgs \/ NextArc

Spec == Init /\ [][Next]_vars
====
